---- MODULE Spec2Model ----
(***************************************************************************)
(* State-machine model of playwright-frappe-ts: the helpers of             *)
(* helpers/utils.ts (key normalisation, cleanUrl), the label of            *)
(* BaseComponent, the enable guard (EnableableComponent), the input        *)
(* operations (InputComponent), the option cache and selection algorithm   *)
(* (SelectComponent), the login flow (LoginPage, AppsPage), isLoaded and   *)
(* waitForPageLoad (BasePage), the constructors of the component classes,  *)
(* and getOptions await by await under two overlapping callers.            *)
(*                                                                         *)
(* JavaScript strings are sequences of one-character strings, so that the  *)
(* regular-expression rewrites of the source are computed character by     *)
(* character.  The value null / undefined of a string-valued expression is *)
(* the one-element sequence Null, which is no string of characters.        *)
(***************************************************************************)
EXTENDS Integers, Sequences, FiniteSets, TLC

----------------------------------------------------------------------------
(* Bounds of the model *)

\* longest option list of the page
MaxOptions == 2
\* Math.random() is drawn from { k / RandDenom : k \in 0 .. RandDenom-1 }
RandDenom == 4
\* longest generated input of the normalisation check
MaxLen == 3

----------------------------------------------------------------------------
(* Characters and strings *)

UpperLetters ==
  << "A","B","C","D","E","F","G","H","I","J","K","L","M",
     "N","O","P","Q","R","S","T","U","V","W","X","Y","Z" >>

LowerLetters ==
  << "a","b","c","d","e","f","g","h","i","j","k","l","m",
     "n","o","p","q","r","s","t","u","v","w","x","y","z" >>

Digits == << "0","1","2","3","4","5","6","7","8","9" >>

Range(f) == { f[i] : i \in DOMAIN f }

UpperSet == Range(UpperLetters)

DigitSet == Range(Digits)

\* the class [A-Z] of the regular expressions
IsUpper(c) == c \in UpperSet

\* the class \s of the regular expressions, also what String.trim() removes
IsWhitespace(c) == c \in {" ", "\t", "\n"}

IsDigit(c) == c \in DigitSet

DigitValue(c) == (CHOOSE i \in DOMAIN Digits : Digits[i] = c) - 1

\* String.prototype.toLowerCase on one character
LowerChar(c) ==
  IF IsUpper(c)
    THEN LowerLetters[CHOOSE i \in DOMAIN UpperLetters : UpperLetters[i] = c]
    ELSE c

\* String.prototype.toLowerCase
ToLowerCase(s) == [i \in 1..Len(s) |-> LowerChar(s[i])]

\* the value of a missing attribute, of missing text, of an absent element
Null == << "null" >>

\* (x || '') on a string-or-null x
OrEmpty(x) == IF x = Null \/ x = << >> THEN << >> ELSE x

RECURSIVE TrimStart(_)
TrimStart(s) ==
  IF s # << >> /\ IsWhitespace(Head(s)) THEN TrimStart(Tail(s)) ELSE s

RECURSIVE TrimEnd(_)
TrimEnd(s) ==
  IF s # << >> /\ IsWhitespace(s[Len(s)])
    THEN TrimEnd(SubSeq(s, 1, Len(s) - 1))
    ELSE s

\* String.prototype.trim
Trim(s) == TrimEnd(TrimStart(s))

----------------------------------------------------------------------------
(* helpers/utils.ts: toLowerSnakeCase, one operator per replace() *)

\* .replace(/\s+/g, '_')
RECURSIVE ReplaceWhitespaceRuns(_)
ReplaceWhitespaceRuns(s) ==
  IF s = << >> THEN << >>
  ELSE IF IsWhitespace(Head(s))
    THEN << "_" >> \o ReplaceWhitespaceRuns(TrimStart(s))
    ELSE << Head(s) >> \o ReplaceWhitespaceRuns(Tail(s))

\* .replace(/[A-Z]/g, (letter) => `_${letter.toLowerCase()}`)
RECURSIVE ReplaceUpper(_)
ReplaceUpper(s) ==
  IF s = << >> THEN << >>
  ELSE IF IsUpper(Head(s))
    THEN << "_", LowerChar(Head(s)) >> \o ReplaceUpper(Tail(s))
    ELSE << Head(s) >> \o ReplaceUpper(Tail(s))

\* .replace(/^_/, '')
StripLeadingUnderscore(s) ==
  IF s # << >> /\ Head(s) = "_" THEN Tail(s) ELSE s

RECURSIVE SkipUnderscores(_)
SkipUnderscores(s) ==
  IF s # << >> /\ Head(s) = "_" THEN SkipUnderscores(Tail(s)) ELSE s

\* .replace(/_+/g, '_')
RECURSIVE CollapseUnderscores(_)
CollapseUnderscores(s) ==
  IF s = << >> THEN << >>
  ELSE IF Head(s) = "_"
    THEN << "_" >> \o CollapseUnderscores(SkipUnderscores(s))
    ELSE << Head(s) >> \o CollapseUnderscores(Tail(s))

\* a variant that forgets the underscore in front of an upper-case letter
toLowerSnakeCaseNoSplit(str) ==
  ToLowerCase(CollapseUnderscores(StripLeadingUnderscore(
    ReplaceWhitespaceRuns(str))))

\* toLowerSnakeCase(str): the five steps in the order of the source
toLowerSnakeCase(str) ==
  ToLowerCase(CollapseUnderscores(StripLeadingUnderscore(
    ReplaceUpper(ReplaceWhitespaceRuns(str)))))

----------------------------------------------------------------------------
(* JavaScript objects used as string-keyed records (Record<string, string>) *)

\* an object is the sequence of its own properties [key, text] in the order
\* Object.keys / Object.entries report them
EmptyObject == << >>

RECURSIVE NumericValue(_)
NumericValue(k) ==
  IF k = << >> THEN 0
  ELSE 10 * NumericValue(SubSeq(k, 1, Len(k) - 1)) + DigitValue(k[Len(k)])

\* a property key that is a canonical array index ("0", "7", "12", not "07");
\* own-property order puts these first, in ascending numeric order.  Keys of
\* ten or more digits do not occur in the model.
IsArrayIndex(k) ==
  /\ Len(k) \in 1..9
  /\ \A i \in 1..Len(k) : IsDigit(k[i])
  /\ (Len(k) = 1 \/ k[1] # "0")

ObjectKeys(obj) == [i \in 1..Len(obj) |-> obj[i].key]

HasOwn(obj, k) == \E i \in 1..Len(obj) : obj[i].key = k

\* an assignment that does not replace the text of an existing key
ObjectSetKeepFirst(obj, k, v) ==
  IF HasOwn(obj, k) THEN obj ELSE Append(obj, [key |-> k, text |-> v])

\* obj[k] = v: an existing key keeps its place, a new array-index key goes
\* among the array-index keys in numeric order, any other new key goes last
ObjectSet(obj, k, v) ==
  IF HasOwn(obj, k)
    THEN [i \in 1..Len(obj) |->
            IF obj[i].key = k THEN [key |-> k, text |-> v] ELSE obj[i]]
  ELSE IF IsArrayIndex(k)
    THEN LET p == Cardinality({ i \in 1..Len(obj) :
                     /\ IsArrayIndex(obj[i].key)
                     /\ NumericValue(obj[i].key) < NumericValue(k) })
         IN  SubSeq(obj, 1, p) \o << [key |-> k, text |-> v] >>
               \o SubSeq(obj, p + 1, Len(obj))
    ELSE Append(obj, [key |-> k, text |-> v])

\* names every object inherits from Object.prototype: obj[name] is a
\* function (or the prototype itself), hence truthy, without being an own key
ObjectPrototypeKeys ==
  { << "c","o","n","s","t","r","u","c","t","o","r" >>,
    << "t","o","S","t","r","i","n","g" >>,
    << "v","a","l","u","e","O","f" >>,
    << "h","a","s","O","w","n","P","r","o","p","e","r","t","y" >>,
    << "_","_","p","r","o","t","o","_","_" >> }

\* the truthiness of obj[k]: an own non-empty text, or an inherited member
IsTruthyProperty(obj, k) ==
  \/ \E i \in 1..Len(obj) : obj[i].key = k /\ obj[i].text # << >>
  \/ (~HasOwn(obj, k) /\ k \in ObjectPrototypeKeys)

\* Object.entries(obj).find(([key]) => key === k)?.[1]  (Null: undefined)
FindEntry(obj, k) ==
  IF HasOwn(obj, k)
    THEN obj[CHOOSE i \in 1..Len(obj) : obj[i].key = k].text
    ELSE Null

----------------------------------------------------------------------------
(* SelectComponent.getOptions: the enumeration loop *)

\* a test that forgets to trim
KeepOptionNoTrim(value, text) == value # << >> /\ text # << >>

\* if (value.trim() !== '' && text.trim() !== '')
KeepOption(value, text) == Trim(value) # << >> /\ Trim(text) # << >>

\* for (let i = 0; i < optionsCount; i++) { ... options[snakeCaseKey] = text }
RECURSIVE CollectOptions(_, _)
CollectOptions(optionElements, options) ==
  IF optionElements = << >> THEN options
  ELSE LET option == Head(optionElements)
           value  == OrEmpty(option.value)
           text   == OrEmpty(option.text)
       IN  CollectOptions(Tail(optionElements),
             IF KeepOption(value, text)
               THEN ObjectSet(options, toLowerSnakeCase(value), text)
               ELSE options)

\* the engine calls of one enumeration: count(), then per option
\* getAttribute('value') and textContent()
RECURSIVE EnumerationTrace(_)
EnumerationTrace(n) ==
  IF n = 0 THEN << "count" >>
  ELSE EnumerationTrace(n - 1) \o << "getAttribute", "textContent" >>

\* the cache field _options: undefined, or the mapping object
Undefined == [defined |-> FALSE, entries |-> EmptyObject]

Mapping(obj) == [defined |-> TRUE, entries |-> obj]

\* a cache test that treats an empty mapping as absent
IsCachedNonEmpty(cache) == cache.defined /\ cache.entries # EmptyObject

\* !this._options is false for every object, the empty one included
IsCached(cache) == cache.defined

\* getOptions(): the mapping it returns, the cache it leaves and the engine
\* calls it makes
GetOptionsOutcome(cache, optionElements) ==
  IF IsCached(cache)
    THEN [cache |-> cache, trace |-> << >>]
    ELSE [cache |-> Mapping(CollectOptions(optionElements, EmptyObject)),
          trace |-> EnumerationTrace(Len(optionElements))]

----------------------------------------------------------------------------
(* helpers/errors.ts: the errors, by kind and by the data their message cites *)

\* a JavaScript number: NaN, or twice / 2 (so that halves are numbers too)
Num(t) == [nan |-> FALSE, twice |-> t]

NaN == [nan |-> TRUE, twice |-> 0]

NoError ==
  [kind |-> "none", component |-> "", action |-> "", key |-> << >>,
   keys |-> << >>, index |-> Num(0), maxIndex |-> 0, receivedType |-> "",
   property |-> "", reason |-> "", selector |-> "",
   current |-> << >>, attempted |-> << >>]

\* VisibilityError(selector, timeout); the timeout is ENV.OBJECT_LOAD_TIMEOUT
\* at every throw site
VisibilityError(selector) ==
  [NoError EXCEPT !.kind = "Visibility", !.selector = selector]

EmptyPropertyError(propertyName, componentName) ==
  [NoError EXCEPT !.kind = "EmptyProperty", !.property = propertyName,
                  !.component = componentName]

\* InvalidLocatorError(locatorString, reason); locatorString is the rejected
\* value, a string or not
InvalidLocatorError(locatorString, reason) ==
  [NoError EXCEPT !.kind = "InvalidLocator",
                  !.attempted = locatorString, !.reason = reason]

LocatorImmutabilityError(componentName, currentValue, attemptedValue) ==
  [NoError EXCEPT !.kind = "LocatorImmutability",
                  !.component = componentName,
                  !.current = currentValue, !.attempted = attemptedValue]

ComponentDisabledError(componentName, action) ==
  [NoError EXCEPT !.kind = "ComponentDisabled",
                  !.component = componentName, !.action = action]

noOptionsAvailable(componentName) ==
  [NoError EXCEPT !.kind = "NoOptions", !.component = componentName]

optionKeyNotFound(componentName, key, availableKeys) ==
  [NoError EXCEPT !.kind = "KeyNotFound", !.component = componentName,
                  !.key = key, !.keys = availableKeys]

indexOutOfRange(componentName, index, maxIndex) ==
  [NoError EXCEPT !.kind = "IndexOutOfRange", !.component = componentName,
                  !.index = index, !.maxIndex = maxIndex]

invalidValueType(componentName, receivedType) ==
  [NoError EXCEPT !.kind = "InvalidValueType", !.component = componentName,
                  !.receivedType = receivedType]

originalValueNotFound(componentName, targetKey) ==
  [NoError EXCEPT !.kind = "OriginalValueNotFound",
                  !.component = componentName, !.key = targetKey]

\* failures of the automation engine on locator.click(): more than one
\* element matches (strict mode), or none does before the timeout
StrictModeViolation == [NoError EXCEPT !.kind = "StrictModeViolation"]

TimeoutError == [NoError EXCEPT !.kind = "Timeout"]

----------------------------------------------------------------------------
(* EnableableComponent *)

\* a guard that lets every call through
throwIfDisabledNever(enabledFlag) == FALSE

\* throwIfDisabled: does it throw?  if (!this._enabled) throw ...
throwIfDisabled(enabledFlag) == ~enabledFlag

----------------------------------------------------------------------------
(* BaseComponent.locatorString *)

\* the reasons the setter gives to InvalidLocatorError
NotAString == "Locator string must be a string value."

EmptyOrWhitespace ==
  "Locator string cannot be empty or contain only whitespace."

\* the field _locatorString before any assignment
NoLocatorString == Null

\* a value test that accepts a whitespace-only string
IsEmptyLocatorNoTrim(s) == s = << >>

\* !value || value.trim() === ''  on a string value
IsEmptyLocator(s) == s = << >> \/ Trim(s) = << >>

\* a test that never sees the stored value
IsLocatorSetNever(current) == FALSE

\* if (this._locatorString): undefined and '' are falsy
IsLocatorSet(current) == current # NoLocatorString /\ current # << >>

\* set locatorString(value): the error it throws and the field it leaves.
\* value is [type, str]: its JavaScript type and, for a string, its content
SetLocatorStringOutcome(componentName, current, value) ==
  IF value.type # "string"
    THEN [error |-> InvalidLocatorError(Null, NotAString),
          _locatorString |-> current]
  ELSE IF IsEmptyLocator(value.str)
    THEN [error |-> InvalidLocatorError(value.str, EmptyOrWhitespace),
          _locatorString |-> current]
  ELSE IF IsLocatorSet(current)
    THEN [error |-> LocatorImmutabilityError(componentName, current,
                                             value.str),
          _locatorString |-> current]
  ELSE [error |-> NoError, _locatorString |-> value.str]

\* get locatorString(): the error it throws or the value it returns
GetLocatorStringOutcome(componentName, current) ==
  IF ~IsLocatorSet(current)
    THEN [error |-> EmptyPropertyError("locatorString", componentName),
          result |-> Null]
    ELSE [error |-> NoError, result |-> current]

----------------------------------------------------------------------------
(* SelectComponent.selectValue *)

\* the argument of selectValue: its JavaScript type and its content
Value(type, str, num) == [type |-> type, str |-> str, num |-> num]

UndefinedValue == Value("undefined", << >>, Num(0))
NullValue      == Value("null", << >>, Num(0))
StringValue(s) == Value("string", s, Num(0))
NumberValue(n) == Value("number", << >>, n)
OtherValue(t)  == Value(t, << >>, Num(0))

\* typeof value
TypeOf(value) == IF value.type = "null" THEN "object" ELSE value.type

\* a rounding that can reach optionKeys.length
RandomIndexCeil(rnd, n) == (rnd * n + RandDenom - 1) \div RandDenom

\* Math.floor(Math.random() * optionKeys.length), Math.random() = rnd / RandDenom
RandomIndex(rnd, n) == (rnd * n) \div RandDenom

\* a range test that lets the index n through
IndexOutOfBoundsOffByOne(num, n) ==
  ~num.nan /\ (num.twice < 0 \/ num.twice > 2 * n)

\* value < 0 || value >= optionKeys.length  (every comparison with NaN is false)
IndexOutOfBounds(num, n) ==
  ~num.nan /\ (num.twice < 0 \/ num.twice >= 2 * n)

\* optionKeys[value]: undefined unless value is an integer index of the array
KeyAt(optionKeys, num) ==
  IF /\ ~num.nan
     /\ num.twice >= 0
     /\ num.twice % 2 = 0
     /\ (num.twice \div 2) + 1 \in DOMAIN optionKeys
    THEN optionKeys[(num.twice \div 2) + 1]
    ELSE Null

\* a chain whose last branch picks at random instead of rejecting the type
ResolveTargetKeyLenient(componentName, options, value, rnd) ==
  LET optionKeys == ObjectKeys(options)
      ok(k, r)   == [error |-> NoError, key |-> k, randomIndex |-> r]
      fail(e)    == [error |-> e, key |-> Null, randomIndex |-> -1]
  IN  IF TypeOf(value) = "string"
        THEN IF ~IsTruthyProperty(options, value.str)
               THEN fail(optionKeyNotFound(componentName, value.str,
                                           optionKeys))
               ELSE ok(value.str, -1)
      ELSE IF TypeOf(value) = "number"
        THEN IF IndexOutOfBounds(value.num, Len(optionKeys))
               THEN fail(indexOutOfRange(componentName, value.num,
                                         Len(optionKeys) - 1))
               ELSE ok(KeyAt(optionKeys, value.num), -1)
      ELSE LET randomIndex == RandomIndex(rnd, Len(optionKeys))
           IN  ok(KeyAt(optionKeys, Num(2 * randomIndex)), randomIndex)

\* the if / else-if chain that resolves targetKey
ResolveTargetKey(componentName, options, value, rnd) ==
  LET optionKeys == ObjectKeys(options)
      ok(k, r)   == [error |-> NoError, key |-> k, randomIndex |-> r]
      fail(e)    == [error |-> e, key |-> Null, randomIndex |-> -1]
  IN  IF value.type = "undefined" \/ value.type = "null"
        THEN LET randomIndex == RandomIndex(rnd, Len(optionKeys))
             IN  ok(KeyAt(optionKeys, Num(2 * randomIndex)), randomIndex)
      ELSE IF TypeOf(value) = "string"
        THEN IF ~IsTruthyProperty(options, value.str)
               THEN fail(optionKeyNotFound(componentName, value.str,
                                           optionKeys))
               ELSE ok(value.str, -1)
      ELSE IF TypeOf(value) = "number"
        THEN IF IndexOutOfBounds(value.num, Len(optionKeys))
               THEN fail(indexOutOfRange(componentName, value.num,
                                         Len(optionKeys) - 1))
               ELSE ok(KeyAt(optionKeys, value.num), -1)
      ELSE fail(invalidValueType(componentName, TypeOf(value)))

\* collapse whitespace runs to one space and trim, as the engine does before
\* it compares texts
RECURSIVE CollapseWhitespace(_)
CollapseWhitespace(s) ==
  IF s = << >> THEN << >>
  ELSE IF IsWhitespace(Head(s))
    THEN << " " >> \o CollapseWhitespace(TrimStart(s))
    ELSE << Head(s) >> \o CollapseWhitespace(Tail(s))

NormalizeText(s) == ToLowerCase(Trim(CollapseWhitespace(s)))

IsSubstring(a, b) ==
  \E i \in 0..(Len(b) - Len(a)) : SubSeq(b, i + 1, i + Len(a)) = a

\* locator('option').filter({ hasText }): the option elements whose text
\* contains hasText, case-insensitively and up to whitespace
FilterHasText(optionElements, hasText) ==
  { i \in 1..Len(optionElements) :
      IsSubstring(NormalizeText(hasText),
                  NormalizeText(OrEmpty(optionElements[i].text))) }

\* an order that reads the options before it opens the control
GetOptionsThenOpen(enumeration) == enumeration \o << "click" >>

\* await this.locator.click(); const options = await this.getOptions():
\* the click that opens the control, then the calls of getOptions
OpenThenGetOptions(enumeration) == << "click" >> \o enumeration

\* selectValue(value): its error, the engine calls it makes, the cache it
\* leaves, the key it targets and the option element it clicks (0: none).
\* The control itself is present: the click that opens it and the reads of
\* the enumeration succeed; the click on the option fails when the filter
\* finds no element or more than one.
SelectValueOutcome(componentName, enabledFlag, cache, optionElements, value, rnd) ==
  IF throwIfDisabled(enabledFlag)
    THEN [error |-> ComponentDisabledError(componentName, "selectValue"),
          trace |-> << >>, cache |-> cache, targetKey |-> Null,
          randomIndex |-> -1, clicked |-> 0]
  ELSE
    LET got        == GetOptionsOutcome(cache, optionElements)
        options    == got.cache.entries
        optionKeys == ObjectKeys(options)
        opened     == [error |-> NoError,
                       trace |-> OpenThenGetOptions(got.trace),
                       cache |-> got.cache, targetKey |-> Null,
                       randomIndex |-> -1, clicked |-> 0]
    IN  IF Len(optionKeys) = 0
          THEN [opened EXCEPT !.error = noOptionsAvailable(componentName)]
        ELSE
          LET target == ResolveTargetKey(componentName, options, value, rnd)
          IN  IF target.error # NoError
                THEN [opened EXCEPT !.error = target.error]
              ELSE
                LET originalValue == FindEntry(options, target.key)
                    resolved == [opened EXCEPT
                                   !.targetKey = target.key,
                                   !.randomIndex = target.randomIndex]
                IN  IF originalValue = Null \/ originalValue = << >>
                      THEN [resolved EXCEPT !.error =
                              originalValueNotFound(componentName,
                                                    target.key)]
                    ELSE
                      LET found == FilterHasText(optionElements,
                                                 originalValue)
                      IN  IF Cardinality(found) = 0
                            THEN [resolved EXCEPT !.error = TimeoutError]
                          ELSE IF Cardinality(found) > 1
                            THEN [resolved EXCEPT
                                    !.error = StrictModeViolation]
                          ELSE [resolved EXCEPT
                                  !.trace = @ \o << "optionClick" >>,
                                  !.clicked = CHOOSE i \in found : TRUE]

----------------------------------------------------------------------------
(* InputComponent.fill / clear *)

\* fill(value) and clear() (= fill('')): the error, the engine calls and the
\* value the element holds afterwards
FillOutcome(componentName, action, enabledFlag, current, value) ==
  IF throwIfDisabled(enabledFlag)
    THEN [error |-> ComponentDisabledError(componentName, action),
          trace |-> << >>, elementValue |-> current]
    ELSE [error |-> NoError, trace |-> << "fill" >>, elementValue |-> value]

\* a read that asks the guard first
InputValueOutcomeGuarded(componentName, action, enabledFlag, current) ==
  IF throwIfDisabled(enabledFlag)
    THEN [error |-> ComponentDisabledError(componentName, action),
          trace |-> << >>, result |-> Null]
    ELSE [error |-> NoError, trace |-> << "inputValue" >>,
          result |-> current]

\* getValue() and getSelectedValue(): return this.locator.inputValue(),
\* whatever this._enabled is
InputValueOutcome(componentName, action, enabledFlag, current) ==
  [error |-> NoError, trace |-> << "inputValue" >>, result |-> current]

----------------------------------------------------------------------------
(* InputComponent.autoFill and the autoFill of the first LabeledInputComponent *)

\* a strategy configuration without the optional params
NoParams == Null

StrategyConfig(strategy, params) == [strategy |-> strategy, params |-> params]

RECURSIVE Join(_)
Join(args) == IF args = << >> THEN << >> ELSE Head(args) \o Join(Tail(args))

\* strategy(...args) for the two strategies of the model: "fixed" is
\* () => 'x', "join" is (...parts) => 'u' + parts.join('')
ApplyStrategy(strategy, args) ==
  IF strategy = "fixed" THEN << "x" >> ELSE << "u" >> \o Join(args)

\* a destructuring that drops the configured params
ParamsOfNone(config) == << >>

\* const { strategy, params = [] } = this.strategyConfig
ParamsOf(config) ==
  IF config.params = NoParams THEN << >> ELSE config.params

\* InputComponent.autoFill(): the strategy calls it makes (the argument list
\* of each), then the outcome of fill(value), then the value it returns
AutoFillOutcome(componentName, enabledFlag, current, config) ==
  LET params == ParamsOf(config)
      value  == ApplyStrategy(config.strategy, params)
      filled == FillOutcome(componentName, "fill", enabledFlag, current,
                            value)
  IN  [error |-> filled.error, trace |-> filled.trace,
       elementValue |-> filled.elementValue,
       strategyCalls |-> << params >>,
       result |-> IF filled.error = NoError THEN value ELSE Null]

\* LabeledInputComponent.autoFill(...args) of components/inputs: the strategy
\* is called with the arguments of the call, and there are no configured ones
LabeledAutoFillOutcome(componentName, enabledFlag, current, strategy, args) ==
  LET value  == ApplyStrategy(strategy, args)
      filled == FillOutcome(componentName, "fill", enabledFlag, current,
                            value)
  IN  [error |-> filled.error, trace |-> filled.trace,
       elementValue |-> filled.elementValue,
       strategyCalls |-> << args >>,
       result |-> IF filled.error = NoError THEN value ELSE Null]

----------------------------------------------------------------------------
(* helpers/utils.ts and config/env.ts: cleanUrl *)

\* the four characters the expression /\\x3a/ matches
EncodedColon == << "\\", "x", "3", "a" >>

StartsWith(s, prefix) ==
  Len(s) >= Len(prefix) /\ SubSeq(s, 1, Len(prefix)) = prefix

\* url.replace(/\\x3a/, ':') without the g flag
ReplaceFirstEncodedColon(s) ==
  IF \E i \in 1..Len(s) : StartsWith(SubSeq(s, i, Len(s)), EncodedColon)
    THEN LET first == CHOOSE i \in 1..Len(s) :
                        /\ StartsWith(SubSeq(s, i, Len(s)), EncodedColon)
                        /\ \A j \in 1..(i - 1) :
                             ~StartsWith(SubSeq(s, j, Len(s)), EncodedColon)
         IN  SubSeq(s, 1, first - 1) \o << ":" >>
               \o SubSeq(s, first + Len(EncodedColon), Len(s))
    ELSE s

\* url.replace(/\\x3a/g, ':'): the matches are found left to right and do
\* not overlap
RECURSIVE ReplaceEncodedColons(_)
ReplaceEncodedColons(s) ==
  IF s = << >> THEN << >>
  ELSE IF StartsWith(s, EncodedColon)
    THEN << ":" >>
           \o ReplaceEncodedColons(SubSeq(s, Len(EncodedColon) + 1, Len(s)))
    ELSE << Head(s) >> \o ReplaceEncodedColons(Tail(s))

\* a cleanUrl that stops after the first encoded colon
cleanUrlFirstOnly(url) ==
  IF url = Null \/ url = << >> THEN << >> ELSE ReplaceFirstEncodedColon(url)

\* cleanUrl(url): url ? url.replace(/\\x3a/g, ':') : ''
cleanUrl(url) ==
  IF url = Null \/ url = << >> THEN << >> ELSE ReplaceEncodedColons(url)

\* Env.CONCATENATED_URL from the variables ENV and DOMAIN (getEnvVar gives ''
\* for an unset one)
CONCATENATED_URL(env, domain) ==
  cleanUrl(OrEmpty(env)) \o cleanUrl(OrEmpty(domain))

----------------------------------------------------------------------------
(* pages/LoginPage and pages/AppsPage: the login flow *)

\* the locators of the login page, of the apps page, and the home URL
UsernameField == "#login_email"
PasswordField == "#login_password"
LoginButton   == "button:Login"
ButtonERP     == "a[href=\"/app/home\"]"
MOD_HOME      == "/app/home"

BypassMessage == "ERP button not found; Apps page bypassed"

\* one call on the automation engine: the method, its target, the value it
\* passes (for isVisible: the answer it gets) and whether it succeeded
EngineCall(method, target, value, ok) ==
  [method |-> method, target |-> target, value |-> value, ok |-> ok]

\* locator.isVisible(): it answers at once and does not throw
IsVisibleCall(selector, visible) ==
  EngineCall("isVisible", selector,
             IF visible THEN "visible" ELSE "hidden", TRUE)

\* a step that skips an invisible element instead of throwing
FieldStepOutcomeSkip(selector, method, value, visible, engineOk) ==
  IF ~visible
    THEN [calls |-> << IsVisibleCall(selector, visible) >>,
          error |-> NoError]
    ELSE [calls |-> << IsVisibleCall(selector, visible),
                       EngineCall(method, selector, value, engineOk) >>,
          error |-> IF engineOk THEN NoError ELSE TimeoutError]

\* typeUsername / typePassword / clickLoginButton: if the element is visible
\* fill or click it, else throw VisibilityError; the fill or click itself
\* succeeds or fails in the engine
FieldStepOutcome(selector, method, value, visible, engineOk) ==
  IF ~visible
    THEN [calls |-> << IsVisibleCall(selector, visible) >>,
          error |-> VisibilityError(selector)]
    ELSE [calls |-> << IsVisibleCall(selector, visible),
                       EngineCall(method, selector, value, engineOk) >>,
          error |-> IF engineOk THEN NoError ELSE TimeoutError]

\* how far clickErpButton gets
ErpOutcomes == {"waitForFails", "clickFails", "urlFails", "ok"}

\* AppsPage.clickErpButton(): waitFor, click, expect(page).toHaveURL(MOD_HOME)
ClickErpButtonOutcome(outcome) ==
  LET waitFor == EngineCall("waitFor", ButtonERP, "", outcome # "waitForFails")
      click   == EngineCall("click", ButtonERP, "", outcome # "clickFails")
      url     == EngineCall("toHaveURL", MOD_HOME, "apps", outcome # "urlFails")
  IN  IF outcome = "waitForFails"
        THEN [calls |-> << waitFor >>, error |-> TimeoutError]
      ELSE IF outcome = "clickFails"
        THEN [calls |-> << waitFor, click >>, error |-> TimeoutError]
      ELSE IF outcome = "urlFails"
        THEN [calls |-> << waitFor, click, url >>, error |-> TimeoutError]
      ELSE [calls |-> << waitFor, click, url >>, error |-> NoError]

\* a handler that throws the failure of the apps page again
CatchAppsFailureRethrow(error) ==
  [error |-> error, logged |-> << >>]

\* try { ... clickErpButton() } catch (e) { console.log(...) }
CatchAppsFailure(error) ==
  [error |-> NoError,
   logged |-> IF error # NoError THEN << BypassMessage >> ELSE << >>]

\* how far navigate gets
NavigateOutcomes == {"gotoFails", "urlFails", "ok"}

\* BasePage.navigate(): page.goto(url), then the wait for the URL
NavigateOutcome(url, outcome) ==
  LET goto    == EngineCall("goto", url, "", outcome # "gotoFails")
      waitUrl == EngineCall("toHaveURL", url, "navigate", outcome = "ok")
  IN  IF outcome = "gotoFails"
        THEN [calls |-> << goto >>, error |-> TimeoutError]
        ELSE [calls |-> << goto, waitUrl >>,
              error |-> IF outcome = "ok" THEN NoError ELSE TimeoutError]

----------------------------------------------------------------------------
(* pages/abstract/BasePage: isLoaded *)

\* the characters of the class [.*+?^${}()|[\]\\]
RegExpMetacharacters ==
  { ".", "*", "+", "?", "^", "$", "{", "}", "(", ")", "|", "[", "]", "\\" }

\* url.replace(/[.*+?^${}()|[\]\\]/g, '\\$&'): a backslash in front of every
\* metacharacter
RECURSIVE EscapeRegExp(_)
EscapeRegExp(s) ==
  IF s = << >> THEN << >>
  ELSE IF Head(s) \in RegExpMetacharacters
    THEN << "\\", Head(s) >> \o EscapeRegExp(Tail(s))
    ELSE << Head(s) >> \o EscapeRegExp(Tail(s))

\* the atoms of a pattern source: a backslash and the character after it
\* stand for that character, a dot stands for any character, every other
\* character for itself (after EscapeRegExp no other metacharacter is bare)
RECURSIVE Atoms(_)
Atoms(source) ==
  IF source = << >> THEN << >>
  ELSE IF Head(source) = "\\" /\ Len(source) > 1
    THEN << [any |-> FALSE, char |-> source[2]] >>
           \o Atoms(Tail(Tail(source)))
  ELSE IF Head(source) = "."
    THEN << [any |-> TRUE, char |-> "."] >> \o Atoms(Tail(source))
  ELSE << [any |-> FALSE, char |-> Head(source)] >> \o Atoms(Tail(source))

\* the atoms match the characters of current that follow position start
AtomsMatchAt(atoms, current, start) ==
  /\ start + Len(atoms) <= Len(current)
  /\ \A i \in DOMAIN atoms :
       atoms[i].any \/ atoms[i].char = current[start + i]

\* new RegExp(source + '(.*)?$').test(current): the expression has no ^, so
\* the source may match at any position, and (.*)?$ takes whatever follows
RegExpTest(source, current) ==
  \E start \in 0..Len(current) : AtomsMatchAt(Atoms(source), current, start)

\* the pattern of isLoaded tested on the location
MatchesPattern(url, current) == RegExpTest(EscapeRegExp(url), current)

\* isLoaded() of pages/abstract/BasePage.ts ("expect") and of the BasePage
\* with the ajax-state wait ("test").  ready: the load signal the variant
\* waits for arrives before its timeout
IsLoadedOutcome(variantName, url, current, isReady) ==
  LET threw       == [error |-> TimeoutError, returned |-> FALSE,
                      result |-> FALSE]
      resolved(b) == [error |-> NoError, returned |-> TRUE, result |-> b]
  IN  IF ~isReady THEN threw
      ELSE IF variantName = "expect"
        THEN IF MatchesPattern(url, current) THEN resolved(TRUE) ELSE threw
      ELSE resolved(MatchesPattern(url, current))

----------------------------------------------------------------------------
(* Construction.  An element reference is the chain of selectors that leads
   to the element; a constructor argument in the parent position is absent,
   a component, or (in LabeledInputComponent.ts, which passes enabled there)
   a boolean *)

\* page.locator(selector)
PageLocator(selector) == << selector >>

\* parent.locator(locator): locator narrowed to be relative to parent
LocatorLocator(parent, locator) == parent \o locator

UndefinedParent == [type |-> "undefined", locator |-> << >>, bool |-> FALSE]

ComponentParent(locator) ==
  [type |-> "component", locator |-> locator, bool |-> FALSE]

BooleanParent(b) == [type |-> "boolean", locator |-> << >>, bool |-> b]

\* if (parent)
IsTruthyParent(parent) ==
  parent.type = "component" \/ (parent.type = "boolean" /\ parent.bool)

\* reading a property of undefined
TypeError(name) ==
  [NoError EXCEPT !.kind = "TypeError", !.property = name]

\* the enabled argument: absent, true or false
EnabledArguments == {"undefined", "true", "false"}

\* enabled = true in a parameter list: the default stands for an absent
\* argument
EnabledParameter(enabledArg) == enabledArg # "false"

\* BaseComponent.constructor of abstracts/InputComponent.ts ("scoped") and of
\* the BaseComponent without a page ("plain")
BaseComponentConstructor(base, locator, parent) ==
  IF base = "plain"
    THEN [error |-> NoError, _locator |-> locator, _parent |-> parent]
  ELSE IF ~IsTruthyParent(parent)
    THEN [error |-> NoError, _locator |-> locator, _parent |-> parent]
  ELSE IF parent.type # "component"
    \* parent.locator is undefined, and undefined.locator(...) throws
    THEN [error |-> TypeError("locator"), _locator |-> << >>,
          _parent |-> parent]
  ELSE [error |-> NoError,
        _locator |-> LocatorLocator(parent.locator, locator),
        _parent |-> parent]

\* EnableableComponent.constructor: super(page, locator, parent), then
\* this.enabled = enabled
EnableableComponentConstructor(locator, parent, enabledArg) ==
  LET made == BaseComponentConstructor("scoped", locator, parent)
  IN  [error |-> made.error, _locator |-> made._locator,
       _parent |-> made._parent, given |-> locator,
       _enabled |-> EnabledParameter(enabledArg)]

\* the last selector of the tooltip-located input, always "input"
SubTargetInput(enabled) == "input"

\* enabled ? 'input' : '.like-disabled-input'
SubTarget(enabled) == IF enabled THEN "input" ELSE ".like-disabled-input"

\* page.locator('frappe-control:visible').filter({ has: tooltip_locator })
\*     .locator(enabled ? 'input' : '.like-disabled-input')
TooltipFieldLocator(enabled) ==
  << "frappe-control:visible", "filter(has tooltip)", SubTarget(enabled) >>

\* new k(...) with the given parent and enabled arguments; base is the
\* BaseComponent a direct subclass extends
ConstructOutcome(k, base, parent, enabledArg) ==
  IF k = "input"
    THEN EnableableComponentConstructor(
           PageLocator("input[data-fieldname]"), parent, enabledArg)
  ELSE IF k = "select"
    THEN EnableableComponentConstructor(
           PageLocator("select[data-fieldname]"), parent, enabledArg)
  ELSE IF k = "tooltipInput"
    THEN EnableableComponentConstructor(
           TooltipFieldLocator(EnabledParameter(enabledArg)), parent,
           enabledArg)
  ELSE IF k = "labeledInput"
    \* super(page, field_locator, enabled): enabled is in the parent position
    \* and the enabled parameter of the superclass is absent
    THEN EnableableComponentConstructor(
           PageLocator("input[data-fieldname]"),
           BooleanParent(EnabledParameter(enabledArg)), "undefined")
  ELSE LET made == BaseComponentConstructor(base, PageLocator("div"), parent)
       IN  [error |-> made.error, _locator |-> made._locator,
            _parent |-> made._parent, given |-> PageLocator("div"),
            _enabled |-> TRUE]

NotBuilt ==
  [called |-> FALSE, class |-> "none", base |-> "scoped", given |-> << >>,
   parentArg |-> UndefinedParent, enabledArg |-> "undefined",
   error |-> NoError]

----------------------------------------------------------------------------
(* SelectComponent.getOptions, await by await.  The method runs up to its
   first await when it is called and from one await to the next each time
   the engine answers; between two awaits other callers and the page run *)

\* the callers that can be inside getOptions() at once
Callers == {1, 2}

\* a call that has not been made: where it stands, the locals optionsCount,
\* i, value and options, and how it settled
NotStarted ==
  [pc |-> "idle", optionsCount |-> 0, i |-> 0, value |-> << >>,
   options |-> EmptyObject, result |-> Undefined, error |-> NoError]

\* a cache write that keeps a mapping already there
WriteCacheOnce(cache, options) ==
  IF cache.defined THEN cache ELSE Mapping(options)

\* this._options = options
WriteCache(cache, options) == Mapping(options)

\* a throw that leaves what was collected in the cache
CacheAfterThrowPartial(cache, options) == Mapping(options)

\* an await that throws leaves the method before this._options = options:
\* the cache is as it was
CacheAfterThrow(cache, options) == cache

\* if (value.trim() !== '' && text.trim() !== '') options[key] = text
OptionsAfterRead(options, value, text) ==
  IF KeepOption(value, text)
    THEN ObjectSet(options, toLowerSnakeCase(value), text)
    ELSE options

\* nth(i) of the option elements answers when the element is there and the
\* engine does not fail; i counts from 0
ElementAnswers(optionElements, i, engineOk) ==
  engineOk /\ i < Len(optionElements)

\* waitForPageLoad(): expect(body).toHaveAttribute(...) is not awaited, so
\* the method resolves at once whatever the attribute is and whether or not
\* it reaches "complete" within the timeout
WaitForPageLoadOutcome(attribute, reachesComplete) ==
  [resolved |-> TRUE, error |-> NoError]

----------------------------------------------------------------------------
(* The state *)

VARIABLES
  kind,          \* the concrete class of the component: "input",
                 \* "labeledInput" or "select"
  _enabled,      \* EnableableComponent._enabled
  _options,      \* SelectComponent._options
  dom,           \* the option elements under the component's locator
  enumerated,    \* the option elements read by the enumeration that filled
                 \* the cache
  elementValue,  \* the value the input element holds
  last,          \* the most recent call on the component and its outcome
  str,           \* the input of the normalisation check
  snake,         \* its result (Null before toLowerSnakeCase has run)
  _locatorString,\* BaseComponent._locatorString
  strategyConfig,\* InputComponent.strategyConfig
  rawUrl,        \* the input of the cleanUrl check
  cleaned,       \* cleanUrl(rawUrl) (Null before cleanUrl has run)
  recleaned,     \* cleanUrl(cleaned) (Null before the second run)
  pc,            \* where the login flow stands
  entry,         \* the method the flow was entered by
  credentials,   \* the credentials login was called with
  steps,         \* the engine calls of the flow so far
  thrown,        \* the error the flow rejected with
  logged,        \* the lines written to the console
  variant,       \* which BasePage the page object extends
  expectedUrl,   \* BasePage.url
  location,      \* page.url()
  ready,         \* the page gives its load signal in time
  loaded,        \* the outcome of the last isLoaded()
  _locator,      \* BaseComponent._locator
  _parent,       \* BaseComponent._parent
  built,         \* the constructor call that made the component
  calls,         \* the getOptions() calls in flight, by caller
  events,        \* what those calls did to start, to the cache and to end
  resnake,       \* toLowerSnakeCase(snake) (Null before the second run)
  ajaxState,     \* the data-ajax-state attribute of the page's body
  waited         \* the outcome of the last waitForPageLoad()

labelVars == << _locatorString, strategyConfig >>

urlVars == << rawUrl, cleaned, recleaned >>

loginVars == << pc, entry, credentials, steps, thrown, logged >>

pageVars == << variant, expectedUrl, location, ready, loaded,
              ajaxState, waited >>

constructVars == << _locator, _parent, built >>

asyncVars == << calls, events >>

vars == << kind, _enabled, _options, dom, enumerated,
           elementValue, last, str, snake,
           labelVars, urlVars, loginVars, pageVars,
           constructVars, asyncVars, resnake >>

\* the concrete classes: "input" is UnlabeledInputComponent, "select" is
\* UnlabeledSelectComponent, "labeledInput" is the LabeledInputComponent of
\* components/inputs/LabeledInputComponent.ts, "tooltipInput" is the
\* LabeledInputComponent located by its tooltip, "base" is a direct subclass
\* of BaseComponent
InputKinds == {"input", "labeledInput", "tooltipInput"}

EnableableKinds == InputKinds \cup {"select"}

\* the name the component gives to its errors: this.constructor.name, or
\* `${this.label} input` in the first LabeledInputComponent
ComponentName(k) ==
  IF k = "select" THEN "UnlabeledSelectComponent"
  ELSE IF k = "labeledInput" THEN "Email input"
  ELSE IF k = "tooltipInput" THEN "LabeledInputComponent"
  ELSE "UnlabeledInputComponent"

----------------------------------------------------------------------------
(* Inputs *)

\* option elements the page can hold: four that getOptions must skip (no
\* value attribute, whitespace-only value, no text, whitespace-only text) and
\* three it keeps, where two values share a key ("b", "B"), one key is a digit
\* string and one text ("x") is contained in another ("xy")
OptionElements ==
  { [value |-> Null,       text |-> << "x" >>],
    [value |-> << " " >>,  text |-> << "x" >>],
    [value |-> << "b" >>,  text |-> Null],
    [value |-> << "b" >>,  text |-> << " " >>],
    [value |-> << "b" >>,  text |-> << "x" >>],
    [value |-> << "B" >>,  text |-> << "x", "y" >>],
    [value |-> << "2" >>,  text |-> << "x", "y" >>] }

OptionLists == UNION { [1..n -> OptionElements] : n \in 0..MaxOptions }

\* string arguments: two keys, a raw value that is no key, a string that is
\* nowhere, and a name every object inherits
KeyArguments ==
  { << "b" >>, << "2" >>, << "B" >>, << "z", "z" >>,
    << "c","o","n","s","t","r","u","c","t","o","r" >> }

SelectArguments ==
  { UndefinedValue, NullValue, NumberValue(NaN),
    OtherValue("boolean"), OtherValue("object") }
    \cup { StringValue(s) : s \in KeyArguments }
    \cup { NumberValue(Num(t)) : t \in -2..(2 * MaxOptions) }

\* one argument of each kind, for the runs that vary the component's state
\* rather than the argument
LifecycleArguments ==
  { UndefinedValue, StringValue(<< "b" >>), NumberValue(Num(0)),
    OtherValue("boolean") }

RandomValues == 0..(RandDenom - 1)

\* Math.random() is only called for an absent argument
RandomValuesFor(value) ==
  IF value.type \in {"undefined", "null"} THEN RandomValues ELSE {0}

FillValues == { << >>, << "x" >> }

SnakeAlphabet == { "a", "B", " ", "_" }

DocumentedExamples ==
  { << "O","p","t","i","o","n"," ","O","n","e" >>,
    << "a","l","r","e","a","d","y","S","n","a","k","e" >>,
    << "a","l","r","e","a","d","y","_","s","n","a","k","e","_","c","a","s","e" >>,
    << "M","y"," ","T","e","s","t"," ","S","t","r","i","n","g" >>,
    << "H","e","l","l","o","W","o","r","l","d" >>,
    << "P","a","s","c","a","l","C","a","s","e","E","x","a","m","p","l","e" >> }

SnakeInputs ==
  DocumentedExamples \cup UNION { [1..n -> SnakeAlphabet] : n \in 0..MaxLen }

----------------------------------------------------------------------------
(* The component: construction and operations *)

NoCall ==
  [op |-> "none", value |-> UndefinedValue, wasEnabled |-> TRUE,
   hadMapping |-> FALSE, error |-> NoError, trace |-> << >>,
   mapping |-> Undefined, targetKey |-> Null, randomIndex |-> -1,
   clicked |-> 0, previous |-> Null, elementBefore |-> << >>,
   strategyCalls |-> << >>, result |-> Null]

\* the parts of the state a specification does not exercise
NoLabel ==
  /\ _locatorString = NoLocatorString
  /\ strategyConfig = StrategyConfig("fixed", NoParams)

NoUrl == rawUrl = Null /\ cleaned = Null /\ recleaned = Null

NoCredentials == [username |-> "", password |-> ""]

NoLogin ==
  /\ pc = "idle"
  /\ entry = ""
  /\ credentials = NoCredentials
  /\ steps = << >>
  /\ thrown = NoError
  /\ logged = << >>

NoConstruct ==
  /\ _locator = << >>
  /\ _parent = UndefinedParent
  /\ built = NotBuilt

NoAsync ==
  /\ calls = [c \in Callers |-> NotStarted]
  /\ events = << >>

NotCalled == [called |-> FALSE, at |-> << >>, wasReady |-> FALSE,
              error |-> NoError, returned |-> FALSE, result |-> FALSE]

NotWaited == [called |-> FALSE, ajaxAt |-> "loading", reached |-> FALSE,
              resolved |-> FALSE, error |-> NoError]

NoPage ==
  /\ variant = "expect"
  /\ expectedUrl = << >>
  /\ location = << >>
  /\ ready = TRUE
  /\ loaded = NotCalled
  /\ ajaxState = "loading"
  /\ waited = NotWaited

\* new UnlabeledInputComponent(...) / new UnlabeledSelectComponent(...) with
\* either value of the enabled argument, on a page with any option list
Init ==
  /\ kind \in {"input", "select"}
  /\ _enabled \in BOOLEAN
  /\ _options = Undefined
  /\ dom \in (IF kind = "select" THEN OptionLists ELSE { << >> })
  /\ enumerated = << >>
  /\ elementValue = << >>
  /\ last = NoCall
  /\ str = << >>
  /\ snake = Null
  /\ NoLabel /\ NoUrl /\ NoLogin /\ NoPage
  /\ NoConstruct /\ NoAsync /\ resnake = Null

\* set enabled(value)
SetEnabled(value) ==
  /\ _enabled' = value
  /\ UNCHANGED << kind, _options, dom, enumerated, elementValue,
                  last, str, snake,
                  labelVars, urlVars, loginVars, pageVars,
                  constructVars, asyncVars, resnake >>

\* getOptions()
GetOptions ==
  /\ kind = "select"
  /\ \E got \in { GetOptionsOutcome(_options, dom) } :
         /\ _options' = got.cache
         /\ enumerated' = IF got.trace = << >> THEN enumerated ELSE dom
         /\ last' = [NoCall EXCEPT !.op = "getOptions",
                                   !.wasEnabled = _enabled,
                                   !.hadMapping = _options.defined,
                                   !.trace = got.trace,
                                   !.mapping = got.cache]
  /\ UNCHANGED << kind, _enabled, dom, elementValue, str, snake,
                  labelVars, urlVars, loginVars, pageVars,
                  constructVars, asyncVars, resnake >>

\* selectValue(value), with rnd / RandDenom what Math.random() returns
SelectValue(value, rnd) ==
  /\ kind = "select"
  /\ \E out \in { SelectValueOutcome(ComponentName(kind), _enabled,
                                     _options, dom, value, rnd) } :
         /\ _options' = out.cache
         /\ enumerated' = IF "count" \in Range(out.trace)
                            THEN dom ELSE enumerated
         /\ last' = [NoCall EXCEPT !.op = "selectValue",
                                   !.value = value,
                                   !.wasEnabled = _enabled,
                                   !.hadMapping = _options.defined,
                                   !.error = out.error,
                                   !.trace = out.trace,
                                   !.mapping = out.cache,
                                   !.targetKey = out.targetKey,
                                   !.randomIndex = out.randomIndex,
                                   !.clicked = out.clicked]
  /\ UNCHANGED << kind, _enabled, dom, elementValue, str, snake,
                  labelVars, urlVars, loginVars, pageVars,
                  constructVars, asyncVars, resnake >>

\* fill(value)
Fill(value) ==
  /\ kind \in InputKinds
  /\ LET out == FillOutcome(ComponentName(kind), "fill", _enabled,
                            elementValue, value)
     IN  /\ elementValue' = out.elementValue
         /\ last' = [NoCall EXCEPT !.op = "fill",
                                   !.value = StringValue(value),
                                   !.wasEnabled = _enabled,
                                   !.error = out.error,
                                   !.trace = out.trace]
  /\ UNCHANGED << kind, _enabled, _options, dom, enumerated,
                  str, snake,
                  labelVars, urlVars, loginVars, pageVars,
                  constructVars, asyncVars, resnake >>

\* clear()
Clear ==
  /\ kind \in InputKinds
  /\ LET out == FillOutcome(ComponentName(kind), "clear", _enabled,
                            elementValue, << >>)
     IN  /\ elementValue' = out.elementValue
         /\ last' = [NoCall EXCEPT !.op = "clear",
                                   !.wasEnabled = _enabled,
                                   !.error = out.error,
                                   !.trace = out.trace]
  /\ UNCHANGED << kind, _enabled, _options, dom, enumerated,
                  str, snake,
                  labelVars, urlVars, loginVars, pageVars,
                  constructVars, asyncVars, resnake >>

\* the page changes the option list under the component: its last option
\* goes away
PageChanges ==
  /\ kind = "select"
  /\ dom # << >>
  /\ dom' = SubSeq(dom, 1, Len(dom) - 1)
  /\ UNCHANGED << kind, _enabled, _options, enumerated, elementValue, last,
                  str, snake,
                  labelVars, urlVars, loginVars, pageVars,
                  constructVars, asyncVars, resnake >>

Next ==
  \/ \E value \in BOOLEAN : SetEnabled(value)
  \/ GetOptions
  \/ \E value \in LifecycleArguments :
       \E rnd \in RandomValuesFor(value) : SelectValue(value, rnd)
  \/ \E value \in FillValues : Fill(value)
  \/ Clear
  \/ PageChanges

Spec == Init /\ [][Next]_vars

----------------------------------------------------------------------------
(* The selection algorithm on its own: an enabled select component on a page
   with any option list, called with every argument of SelectArguments *)

InitSelect ==
  /\ kind = "select"
  /\ _enabled = TRUE
  /\ _options = Undefined
  /\ dom \in OptionLists
  /\ enumerated = << >>
  /\ elementValue = << >>
  /\ last = NoCall
  /\ str = << >>
  /\ snake = Null
  /\ NoLabel /\ NoUrl /\ NoLogin /\ NoPage
  /\ NoConstruct /\ NoAsync /\ resnake = Null

NextSelect ==
  \/ GetOptions
  \/ \E value \in SelectArguments :
       \E rnd \in RandomValuesFor(value) : SelectValue(value, rnd)

SpecSelect == InitSelect /\ [][NextSelect]_vars

----------------------------------------------------------------------------
(* The normalisation on its own: every input of SnakeInputs, one call, and
   one more on its result *)

InitSnake ==
  /\ kind = "select"
  /\ _enabled = TRUE
  /\ _options = Undefined
  /\ dom = << >>
  /\ enumerated = << >>
  /\ elementValue = << >>
  /\ last = NoCall
  /\ str \in SnakeInputs
  /\ snake = Null
  /\ NoLabel /\ NoUrl /\ NoLogin /\ NoPage
  /\ NoConstruct /\ NoAsync /\ resnake = Null

\* snake = toLowerSnakeCase(str)
Normalize ==
  /\ snake = Null
  /\ snake' = toLowerSnakeCase(str)
  /\ UNCHANGED << kind, _enabled, _options, dom, enumerated,
                  elementValue, last, str,
                  labelVars, urlVars, loginVars, pageVars,
                  constructVars, asyncVars, resnake >>

\* resnake = toLowerSnakeCase(snake)
NormalizeAgain ==
  /\ snake # Null
  /\ resnake = Null
  /\ resnake' = toLowerSnakeCase(snake)
  /\ UNCHANGED << kind, _enabled, _options, dom, enumerated,
                  elementValue, last, str, snake,
                  labelVars, urlVars, loginVars, pageVars,
                  constructVars, asyncVars >>

NextSnake == Normalize \/ NormalizeAgain

SpecSnake == InitSnake /\ [][NextSnake]_vars

----------------------------------------------------------------------------
(* The label and the read operations: a component in either enabled state,
   on a page with any option list, whose label is set and read *)

\* what a caller can assign to locatorString: a non-string, the empty
\* string, whitespace-only strings, and strings with content (one of them
\* padded with whitespace)
LabelArguments ==
  { OtherValue("undefined"), OtherValue("number"),
    StringValue(<< >>), StringValue(<< " " >>), StringValue(<< " ", "\t" >>),
    StringValue(<< "a" >>), StringValue(<< "b" >>),
    StringValue(<< " ", "a", " " >>) }

\* set locatorString(value)
SetLocatorString(value) ==
  /\ \E out \in { SetLocatorStringOutcome(ComponentName(kind),
                                          _locatorString, value) } :
         /\ _locatorString' = out._locatorString
         /\ last' = [NoCall EXCEPT !.op = "setLocatorString",
                                   !.value = value,
                                   !.wasEnabled = _enabled,
                                   !.previous = _locatorString,
                                   !.error = out.error]
  /\ UNCHANGED << kind, _enabled, _options, dom, enumerated, elementValue,
                  str, snake, strategyConfig, urlVars, loginVars, pageVars,
                  constructVars, asyncVars, resnake >>

\* get locatorString()
GetLocatorString ==
  /\ \E out \in { GetLocatorStringOutcome(ComponentName(kind),
                                          _locatorString) } :
         last' = [NoCall EXCEPT !.op = "getLocatorString",
                                !.wasEnabled = _enabled,
                                !.previous = _locatorString,
                                !.error = out.error,
                                !.result = out.result]
  /\ UNCHANGED << kind, _enabled, _options, dom, enumerated, elementValue,
                  str, snake, labelVars, urlVars, loginVars, pageVars,
                  constructVars, asyncVars, resnake >>

\* InputComponent.getValue(): return this.locator.inputValue()
GetValue ==
  /\ kind \in InputKinds
  /\ \E out \in { InputValueOutcome(ComponentName(kind), "getValue",
                                    _enabled, elementValue) } :
       last' = [NoCall EXCEPT !.op = "getValue",
                              !.wasEnabled = _enabled,
                              !.hadMapping = _options.defined,
                              !.previous = _locatorString,
                              !.error = out.error,
                              !.trace = out.trace,
                              !.mapping = _options,
                              !.result = out.result]
  /\ UNCHANGED << kind, _enabled, _options, dom, enumerated, elementValue,
                  str, snake, labelVars, urlVars, loginVars, pageVars,
                  constructVars, asyncVars, resnake >>

\* SelectComponent.getSelectedValue(): return this.locator.inputValue()
GetSelectedValue ==
  /\ kind = "select"
  /\ \E out \in { InputValueOutcome(ComponentName(kind), "getSelectedValue",
                                    _enabled, elementValue) } :
       last' = [NoCall EXCEPT !.op = "getSelectedValue",
                              !.wasEnabled = _enabled,
                              !.hadMapping = _options.defined,
                              !.previous = _locatorString,
                              !.error = out.error,
                              !.trace = out.trace,
                              !.mapping = _options,
                              !.result = out.result]
  /\ UNCHANGED << kind, _enabled, _options, dom, enumerated, elementValue,
                  str, snake, labelVars, urlVars, loginVars, pageVars,
                  constructVars, asyncVars, resnake >>

\* the pages of the read operations: no option, one option, two options
ReadOptionLists ==
  { << >>,
    << [value |-> << "b" >>, text |-> << "x" >>] >>,
    << [value |-> << "b" >>, text |-> << "x" >>],
       [value |-> << "2" >>, text |-> << "x", "y" >>] >> }

InitLabel ==
  /\ kind \in {"input", "select"}
  /\ _enabled \in BOOLEAN
  /\ _options = Undefined
  /\ dom \in (IF kind = "select" THEN ReadOptionLists ELSE { << >> })
  /\ enumerated = << >>
  /\ elementValue \in FillValues
  /\ last = NoCall
  /\ str = << >>
  /\ snake = Null
  /\ NoLabel /\ NoUrl /\ NoLogin /\ NoPage
  /\ NoConstruct /\ NoAsync /\ resnake = Null

NextLabel ==
  \/ \E value \in BOOLEAN : SetEnabled(value)
  \/ \E value \in LabelArguments : SetLocatorString(value)
  \/ GetLocatorString
  \/ GetOptions
  \/ GetValue
  \/ GetSelectedValue

SpecLabel == InitLabel /\ [][NextLabel]_vars

----------------------------------------------------------------------------
(* The input components: fill, clear, getValue and autoFill with every
   strategy configuration *)

\* the configurations of InputComponent: no params, an empty list, one
\* parameter, two parameters
StrategyConfigs ==
  { StrategyConfig("fixed", NoParams),
    StrategyConfig("join", NoParams),
    StrategyConfig("join", << >>),
    StrategyConfig("join", << << "a" >> >>),
    StrategyConfig("join", << << "a" >>, << "b" >> >>) }

\* the first LabeledInputComponent holds a strategy and no params
LabeledStrategyConfigs ==
  { StrategyConfig("fixed", NoParams), StrategyConfig("join", NoParams) }

\* autoFill(), called as IAutoFillable declares it: without arguments
AutoFill ==
  /\ kind \in InputKinds
  /\ \E out \in { IF kind = "input"
                    THEN AutoFillOutcome(ComponentName(kind), _enabled,
                                         elementValue, strategyConfig)
                    ELSE LabeledAutoFillOutcome(ComponentName(kind),
                                                _enabled, elementValue,
                                                strategyConfig.strategy,
                                                << >>) } :
         /\ elementValue' = out.elementValue
         /\ last' = [NoCall EXCEPT !.op = "autoFill",
                                   !.wasEnabled = _enabled,
                                   !.elementBefore = elementValue,
                                   !.error = out.error,
                                   !.trace = out.trace,
                                   !.strategyCalls = out.strategyCalls,
                                   !.result = out.result]
  /\ UNCHANGED << kind, _enabled, _options, dom, enumerated,
                  str, snake, labelVars, urlVars, loginVars, pageVars,
                  constructVars, asyncVars, resnake >>

\* new UnlabeledInputComponent(..., strategyConfig, parent, enabled) with
\* either value of enabled; new LabeledInputComponent(...) of
\* components/inputs, whose _enabled is true after construction
InitInput ==
  /\ kind \in InputKinds
  /\ _enabled \in (IF kind = "input" THEN BOOLEAN ELSE {TRUE})
  /\ _options = Undefined
  /\ dom = << >>
  /\ enumerated = << >>
  /\ elementValue = << >>
  /\ last = NoCall
  /\ str = << >>
  /\ snake = Null
  /\ _locatorString = NoLocatorString
  /\ strategyConfig \in (IF kind = "input" THEN StrategyConfigs
                                           ELSE LabeledStrategyConfigs)
  /\ NoUrl /\ NoLogin /\ NoPage
  /\ NoConstruct /\ NoAsync /\ resnake = Null

NextInput ==
  \/ \E value \in BOOLEAN : SetEnabled(value)
  \/ \E value \in FillValues : Fill(value)
  \/ Clear
  \/ GetValue
  \/ AutoFill

SpecInput == InitInput /\ [][NextInput]_vars

----------------------------------------------------------------------------
(* cleanUrl on its own: every input of UrlInputs, cleaned once and again *)

\* longest input of the cleanUrl check, in pieces
MaxPieces == 4

\* the pieces the inputs are made of: the encoded colon, each of its
\* characters alone, a colon and another character
UrlPieces ==
  { EncodedColon, << "\\" >>, << "x" >>, << "3" >>, << "a" >>,
    << ":" >>, << "h" >> }

\* the variable is unset, or holds a string made of at most MaxPieces pieces
UrlInputs ==
  { Null } \cup
  { Join(pieces) :
      pieces \in UNION { [1..n -> UrlPieces] : n \in 0..MaxPieces } }

InitUrl ==
  /\ kind = "select"
  /\ _enabled = TRUE
  /\ _options = Undefined
  /\ dom = << >>
  /\ enumerated = << >>
  /\ elementValue = << >>
  /\ last = NoCall
  /\ str = << >>
  /\ snake = Null
  /\ rawUrl \in UrlInputs
  /\ cleaned = Null
  /\ recleaned = Null
  /\ NoLabel /\ NoLogin /\ NoPage
  /\ NoConstruct /\ NoAsync /\ resnake = Null

\* cleaned = cleanUrl(rawUrl)
CleanUrl ==
  /\ cleaned = Null
  /\ cleaned' = cleanUrl(rawUrl)
  /\ UNCHANGED << kind, _enabled, _options, dom, enumerated, elementValue,
                  last, str, snake, labelVars, rawUrl, recleaned,
                  loginVars, pageVars,
                  constructVars, asyncVars, resnake >>

\* recleaned = cleanUrl(cleaned)
CleanUrlAgain ==
  /\ cleaned # Null
  /\ recleaned = Null
  /\ recleaned' = cleanUrl(cleaned)
  /\ UNCHANGED << kind, _enabled, _options, dom, enumerated, elementValue,
                  last, str, snake, labelVars, rawUrl, cleaned,
                  loginVars, pageVars,
                  constructVars, asyncVars, resnake >>

NextUrl == CleanUrl \/ CleanUrlAgain

SpecUrl == InitUrl /\ [][NextUrl]_vars

----------------------------------------------------------------------------
(* The login flow: login(credentials) or loginByRole(role), one action per
   awaited step, the page answering each step either way *)

Usernames == {"admin", "guest"}

Passwords == {"pw", ""}

CredentialsSet == [username : Usernames, password : Passwords]

Roles == {"admin", "guest"}

\* authProvider.getCredentialsByRole(role)
getCredentialsByRole(role) ==
  IF role = "admin" THEN [username |-> "admin", password |-> "pw"]
                    ELSE [username |-> "guest", password |-> ""]

\* login({ username, password }) is called
Login(creds) ==
  /\ pc = "idle"
  /\ pc' = "typeUsername"
  /\ entry' = "login"
  /\ credentials' = creds
  /\ UNCHANGED << kind, _enabled, _options, dom, enumerated, elementValue,
                  last, str, snake, labelVars, urlVars, steps, thrown,
                  logged, pageVars,
                  constructVars, asyncVars, resnake >>

\* loginByRole(role) is called
LoginByRole(role) ==
  /\ pc = "idle"
  /\ pc' = "typeUsername"
  /\ entry' = "loginByRole"
  /\ credentials' = getCredentialsByRole(role)
  /\ UNCHANGED << kind, _enabled, _options, dom, enumerated, elementValue,
                  last, str, snake, labelVars, urlVars, steps, thrown,
                  logged, pageVars,
                  constructVars, asyncVars, resnake >>

\* the flow after one awaited step: it goes on, or login rejects with the
\* error of the step
Continue(out, nextPc) ==
  /\ steps' = steps \o out.calls
  /\ thrown' = out.error
  /\ pc' = IF out.error # NoError THEN "rejected" ELSE nextPc
  /\ UNCHANGED << kind, _enabled, _options, dom, enumerated, elementValue,
                  last, str, snake, labelVars, urlVars, entry, credentials,
                  pageVars,
                  constructVars, asyncVars, resnake >>

\* await this.typeUsername(username)
TypeUsername(visible, engineOk) ==
  /\ pc = "typeUsername"
  /\ Continue(FieldStepOutcome(UsernameField, "fill", credentials.username,
                               visible, engineOk), "typePassword")
  /\ UNCHANGED logged

\* await this.typePassword(password)
TypePassword(visible, engineOk) ==
  /\ pc = "typePassword"
  /\ Continue(FieldStepOutcome(PasswordField, "fill", credentials.password,
                               visible, engineOk), "clickLoginButton")
  /\ UNCHANGED logged

\* await this.clickLoginButton()
ClickLoginButton(visible, engineOk) ==
  /\ pc = "clickLoginButton"
  /\ Continue(FieldStepOutcome(LoginButton, "click", "", visible, engineOk),
              "apps")
  /\ UNCHANGED logged

\* try { await new AppsPage(page).clickErpButton() } catch (e) { log }
ClickErpButton(outcome) ==
  /\ pc = "apps"
  /\ \E erp \in { ClickErpButtonOutcome(outcome) } :
       \E caught \in { CatchAppsFailure(erp.error) } :
         /\ Continue([calls |-> erp.calls, error |-> caught.error], "home")
         /\ logged' = logged \o caught.logged

\* await new HomePage(page).navigate()
NavigateHome(outcome) ==
  /\ pc = "home"
  /\ Continue(NavigateOutcome(MOD_HOME, outcome), "resolved")
  /\ UNCHANGED logged

InitLogin ==
  /\ kind = "select"
  /\ _enabled = TRUE
  /\ _options = Undefined
  /\ dom = << >>
  /\ enumerated = << >>
  /\ elementValue = << >>
  /\ last = NoCall
  /\ str = << >>
  /\ snake = Null
  /\ NoLabel /\ NoUrl /\ NoLogin /\ NoPage
  /\ NoConstruct /\ NoAsync /\ resnake = Null

NextLogin ==
  \/ \E creds \in CredentialsSet : Login(creds)
  \/ \E role \in Roles : LoginByRole(role)
  \/ \E visible, engineOk \in BOOLEAN : TypeUsername(visible, engineOk)
  \/ \E visible, engineOk \in BOOLEAN : TypePassword(visible, engineOk)
  \/ \E visible, engineOk \in BOOLEAN : ClickLoginButton(visible, engineOk)
  \/ \E outcome \in ErpOutcomes : ClickErpButton(outcome)
  \/ \E outcome \in NavigateOutcomes : NavigateHome(outcome)

SpecLogin == InitLogin /\ [][NextLogin]_vars

\* an async function goes on as soon as the promise it awaits settles, and
\* every engine call of the flow settles (it succeeds or times out)
FairSpecLogin == SpecLogin /\ WF_vars(NextLogin)

----------------------------------------------------------------------------
(* isLoaded() on a page object of either BasePage, with the page at any
   location *)

\* BasePage.url of the page objects of the model
PageUrls == { << "/", "h" >>, << "/", "a" >>, << "/", "a", ".", "b" >> }

\* where the page can be: at a page URL, at one with a query, at one with a
\* prefix, at one with another character for the dot, elsewhere
Locations ==
  { << "/", "h" >>, << "/", "h", "?", "q" >>, << "x", "/", "h" >>,
    << "/", "a" >>, << "/", "a", "/", "b" >>, << "/" >>,
    << "/", "a", ".", "b" >>, << "/", "a", "x", "b" >> }

\* where a new page is
AboutBlank == << "a", "b", "o", "u", "t", ":", "b", "l", "a", "n", "k" >>

\* isLoaded()
IsLoaded ==
  /\ \E out \in { IsLoadedOutcome(variant, expectedUrl, location, ready) } :
       loaded' = [called |-> TRUE, at |-> location, wasReady |-> ready,
                  error |-> out.error, returned |-> out.returned,
                  result |-> out.result]
  /\ UNCHANGED << kind, _enabled, _options, dom, enumerated, elementValue,
                  last, str, snake, labelVars, urlVars, loginVars,
                  variant, expectedUrl, location, ready, ajaxState, waited,
                  constructVars, asyncVars, resnake >>

\* the page moves to another location, and gives or withholds its load
\* signal there
LocationChanges(next, signal) ==
  /\ location' = next
  /\ ready' = signal
  /\ UNCHANGED << kind, _enabled, _options, dom, enumerated, elementValue,
                  last, str, snake, labelVars, urlVars, loginVars,
                  variant, expectedUrl, loaded, ajaxState, waited,
                  constructVars, asyncVars, resnake >>

\* waitForPageLoad(), with reachesComplete: the attribute is or gets to
\* "complete" within the page-load timeout
WaitForPageLoad(reachesComplete) ==
  /\ variant = "expect"
  /\ ajaxState = "complete" => reachesComplete
  /\ \E out \in { WaitForPageLoadOutcome(ajaxState, reachesComplete) } :
       waited' = [called |-> TRUE, ajaxAt |-> ajaxState,
                  reached |-> reachesComplete, resolved |-> out.resolved,
                  error |-> out.error]
  /\ UNCHANGED << kind, _enabled, _options, dom, enumerated, elementValue,
                  last, str, snake, labelVars, urlVars, loginVars,
                  variant, expectedUrl, location, ready, loaded, ajaxState,
                  constructVars, asyncVars, resnake >>

\* the page sets the data-ajax-state attribute of its body
AjaxStateChanges(value) ==
  /\ value # ajaxState
  /\ ajaxState' = value
  /\ UNCHANGED << kind, _enabled, _options, dom, enumerated, elementValue,
                  last, str, snake, labelVars, urlVars, loginVars,
                  variant, expectedUrl, location, ready, loaded, waited,
                  constructVars, asyncVars, resnake >>

InitPage ==
  /\ kind = "select"
  /\ _enabled = TRUE
  /\ _options = Undefined
  /\ dom = << >>
  /\ enumerated = << >>
  /\ elementValue = << >>
  /\ last = NoCall
  /\ str = << >>
  /\ snake = Null
  /\ variant \in {"expect", "test"}
  /\ expectedUrl \in PageUrls
  /\ location = AboutBlank
  /\ ready = TRUE
  /\ loaded = NotCalled
  /\ ajaxState = "loading"
  /\ waited = NotWaited
  /\ NoLabel /\ NoUrl /\ NoLogin
  /\ NoConstruct /\ NoAsync /\ resnake = Null

NextPage ==
  \/ IsLoaded
  \/ \E reachesComplete \in BOOLEAN : WaitForPageLoad(reachesComplete)
  \/ \E value \in {"loading", "complete"} : AjaxStateChanges(value)
  \/ \E next \in Locations : \E signal \in BOOLEAN :
       LocationChanges(next, signal)

SpecPage == InitPage /\ [][NextPage]_vars

----------------------------------------------------------------------------
(* Construction: a component of any concrete class is constructed, with or
   without a parent and with each enabled argument, and then used *)

\* the classes a caller can construct, and the BaseComponent under each
ConcreteClasses ==
  { [class |-> k, base |-> "scoped"] : k \in EnableableKinds \cup {"base"} }
    \cup { [class |-> "base", base |-> "plain"] }

\* the parent arguments: none, a form, a section inside a form
ParentArguments ==
  { UndefinedParent, ComponentParent(PageLocator("form")),
    ComponentParent(LocatorLocator(PageLocator("form"),
                                   PageLocator("section"))) }

\* LabeledInputComponent.ts has no parent parameter, a direct subclass of
\* BaseComponent no enabled parameter
ParentArgumentsOf(k) ==
  IF k = "labeledInput" THEN { UndefinedParent } ELSE ParentArguments

EnabledArgumentsOf(k) ==
  IF k = "base" THEN { "undefined" } ELSE EnabledArguments

\* the option list under a constructed select
ConstructedOptions == << [value |-> << "b" >>, text |-> << "x" >>] >>

\* new k(page, ..., parent, enabled)
Construct(k, base, parent, enabledArg) ==
  /\ ~built.called
  /\ \E made \in { ConstructOutcome(k, base, parent, enabledArg) } :
       /\ built' = [called |-> TRUE, class |-> k, base |-> base,
                    given |-> made.given, parentArg |-> parent,
                    enabledArg |-> enabledArg, error |-> made.error]
       /\ kind' = IF made.error = NoError THEN k ELSE kind
       /\ _locator' = made._locator
       /\ _parent' = made._parent
       /\ _enabled' = made._enabled
  /\ UNCHANGED << _options, dom, enumerated, elementValue, last, str, snake,
                  labelVars, urlVars, loginVars, pageVars,
                  asyncVars, resnake >>

InitConstruct ==
  /\ kind = "none"
  /\ _enabled = TRUE
  /\ _options = Undefined
  /\ dom = ConstructedOptions
  /\ enumerated = << >>
  /\ elementValue = << >>
  /\ last = NoCall
  /\ str = << >>
  /\ snake = Null
  /\ NoLabel /\ NoUrl /\ NoLogin /\ NoPage
  /\ NoConstruct /\ NoAsync /\ resnake = Null

NextConstruct ==
  \/ \E c \in ConcreteClasses :
       \E parent \in ParentArgumentsOf(c.class) :
         \E enabledArg \in EnabledArgumentsOf(c.class) :
           Construct(c.class, c.base, parent, enabledArg)
  \/ \E value \in BOOLEAN : kind \in EnableableKinds /\ SetEnabled(value)
  \/ \E value \in FillValues : Fill(value)
  \/ Clear
  \/ \E value \in { StringValue(<< "b" >>) } : SelectValue(value, 0)

SpecConstruct == InitConstruct /\ [][NextConstruct]_vars

----------------------------------------------------------------------------
(* Overlapping calls: two callers call getOptions() on one select component,
   each once, while the engine may fail any await and the page may drop
   options *)

Event(c, what) == [call |-> c, what |-> what]

\* the call of c throws out of an await
Throws(c) ==
  /\ calls' = [calls EXCEPT ![c] = [@ EXCEPT !.pc = "thrown",
                                              !.error = TimeoutError]]
  /\ _options' = CacheAfterThrow(_options, calls[c].options)
  /\ events' = Append(events, Event(c, "throw"))

\* this._options = options; return this._options
Returns(c, options) ==
  /\ _options' = WriteCache(_options, options)
  /\ calls' = [calls EXCEPT ![c] = [@ EXCEPT !.pc = "returned",
                                              !.options = options,
                                              !.result = _options']]
  /\ events' = events \o << Event(c, "write"), Event(c, "return") >>

\* getOptions() is called: if (!this._options), up to the await of count()
StartGetOptions(c) ==
  /\ kind = "select"
  /\ calls[c].pc = "idle"
  /\ IF IsCached(_options)
       THEN /\ calls' = [calls EXCEPT ![c] = [@ EXCEPT !.pc = "returned",
                                                       !.result = _options]]
            /\ events' = events \o << Event(c, "start"), Event(c, "return") >>
       ELSE /\ calls' = [calls EXCEPT ![c] = [@ EXCEPT !.pc = "count"]]
            /\ events' = Append(events, Event(c, "start"))
  /\ UNCHANGED << kind, _enabled, _options, dom, enumerated, elementValue,
                  last, str, snake, labelVars, urlVars, loginVars, pageVars,
                  constructVars, resnake >>

\* await optionElements.count() answers; const options = {}; the for loop
\* up to the await of getAttribute('value')
CountAnswers(c, engineOk) ==
  /\ calls[c].pc = "count"
  /\ IF ~engineOk THEN Throws(c)
     ELSE IF Len(dom) = 0 THEN Returns(c, EmptyObject)
     ELSE /\ calls' = [calls EXCEPT ![c] = [@ EXCEPT !.pc = "value",
                                                     !.optionsCount = Len(dom),
                                                     !.i = 0,
                                                     !.options = EmptyObject]]
          /\ UNCHANGED << _options, events >>
  /\ UNCHANGED << kind, _enabled, dom, enumerated, elementValue,
                  last, str, snake, labelVars, urlVars, loginVars, pageVars,
                  constructVars, resnake >>

\* await optionElements.nth(i).getAttribute('value') answers; || ''; up to
\* the await of textContent()
ValueAnswers(c, engineOk) ==
  /\ calls[c].pc = "value"
  /\ IF ~ElementAnswers(dom, calls[c].i, engineOk) THEN Throws(c)
     ELSE /\ calls' = [calls EXCEPT ![c] =
                         [@ EXCEPT !.pc = "text",
                                   !.value = OrEmpty(dom[calls[c].i + 1].value)]]
          /\ UNCHANGED << _options, events >>
  /\ UNCHANGED << kind, _enabled, dom, enumerated, elementValue,
                  last, str, snake, labelVars, urlVars, loginVars, pageVars,
                  constructVars, resnake >>

\* await optionElements.nth(i).textContent() answers; || ''; the option is
\* kept or skipped; i++, and either the next await or the end of the loop
TextAnswers(c, engineOk) ==
  /\ calls[c].pc = "text"
  /\ IF ~ElementAnswers(dom, calls[c].i, engineOk) THEN Throws(c)
     ELSE \E options \in
            { OptionsAfterRead(calls[c].options, calls[c].value,
                               OrEmpty(dom[calls[c].i + 1].text)) } :
            IF calls[c].i + 1 < calls[c].optionsCount
              THEN /\ calls' = [calls EXCEPT ![c] =
                                  [@ EXCEPT !.pc = "value",
                                            !.i = calls[c].i + 1,
                                            !.options = options]]
                   /\ UNCHANGED << _options, events >>
              ELSE Returns(c, options)
  /\ UNCHANGED << kind, _enabled, dom, enumerated, elementValue,
                  last, str, snake, labelVars, urlVars, loginVars, pageVars,
                  constructVars, resnake >>

InitOverlap ==
  /\ kind = "select"
  /\ _enabled = TRUE
  /\ _options = Undefined
  /\ dom \in ReadOptionLists
  /\ enumerated = << >>
  /\ elementValue = << >>
  /\ last = NoCall
  /\ str = << >>
  /\ snake = Null
  /\ NoLabel /\ NoUrl /\ NoLogin /\ NoPage
  /\ NoConstruct /\ NoAsync /\ resnake = Null

NextOverlap ==
  \/ \E c \in Callers : StartGetOptions(c)
  \/ \E c \in Callers : \E engineOk \in BOOLEAN : CountAnswers(c, engineOk)
  \/ \E c \in Callers : \E engineOk \in BOOLEAN : ValueAnswers(c, engineOk)
  \/ \E c \in Callers : \E engineOk \in BOOLEAN : TextAnswers(c, engineOk)
  \/ PageChanges

SpecOverlap == InitOverlap /\ [][NextOverlap]_vars

----------------------------------------------------------------------------
(* Properties *)

MutatingOps == {"fill", "clear", "selectValue"}

\* C1: a fill, clear or selectValue made while enabled is false fails with
\* ComponentDisabled and makes no call on the element: no fill, no click on
\* the control, no option enumeration, no option click.
C1_DisabledCallIsRejected ==
  (last.op \in MutatingOps /\ ~last.wasEnabled) =>
    /\ last.error.kind = "ComponentDisabled"
    /\ last.error.action = last.op
    /\ last.trace = << >>
    /\ last.clicked = 0

\* a selectValue rejected on a disabled component although its option cache
\* holds options
C1_Witness ==
  /\ last.op = "selectValue"
  /\ ~last.wasEnabled
  /\ last.hadMapping
  /\ _options.entries # EmptyObject

\* C4: toLowerSnakeCase returns a string for every input, and the documented
\* examples map to their documented results.
C4_DocumentedExamples ==
  snake # Null =>
    /\ \A i \in 1..Len(snake) :
         snake[i] \in Range(ToLowerCase(str)) \cup {"_"}
    /\ (str = << "O","p","t","i","o","n"," ","O","n","e" >>
          => snake = << "o","p","t","i","o","n","_","o","n","e" >>)
    /\ (str = << "a","l","r","e","a","d","y","S","n","a","k","e" >>
          => snake = << "a","l","r","e","a","d","y","_","s","n","a","k","e" >>)
    /\ (str = << "a","l","r","e","a","d","y","_","s","n","a","k","e","_",
                 "c","a","s","e" >>
          => snake = str)
    /\ (str = << "M","y"," ","T","e","s","t"," ","S","t","r","i","n","g" >>
          => snake = << "m","y","_","t","e","s","t","_","s","t","r","i","n",
                        "g" >>)
    /\ (str = << "H","e","l","l","o","W","o","r","l","d" >>
          => snake = << "h","e","l","l","o","_","w","o","r","l","d" >>)
    /\ (str = << "P","a","s","c","a","l","C","a","s","e","E","x","a","m",
                 "p","l","e" >>
          => snake = << "p","a","s","c","a","l","_","c","a","s","e","_",
                        "e","x","a","m","p","l","e" >>)

\* the normalisation has run on "My Test String"
C4_Witness ==
  /\ str = << "M","y"," ","T","e","s","t"," ","S","t","r","i","n","g" >>
  /\ snake # Null

----------------------------------------------------------------------------
(* Properties of the option cache *)

\* empty, whitespace-only or missing
IsBlank(x) == x = Null \/ \A i \in 1..Len(x) : IsWhitespace(x[i])

KeySet(cache) == Range(ObjectKeys(cache.entries))

\* the keys of the options that have a value and a text
ExpectedKeySet(optionElements) ==
  { toLowerSnakeCase(optionElements[i].value) :
      i \in { j \in 1..Len(optionElements) :
                /\ ~IsBlank(optionElements[j].value)
                /\ ~IsBlank(optionElements[j].text) } }

\* C2: the mapping built by the first enumeration has exactly the keys
\* normalize(value) of the options whose value attribute and text are both
\* non-blank (a missing attribute or text counts as empty), and the first
\* getOptions() returns that mapping.
C2_KeySetOfFirstEnumeration ==
  /\ _options.defined => KeySet(_options) = ExpectedKeySet(enumerated)
  /\ (last.op = "getOptions" /\ ~last.hadMapping) => last.mapping = _options

\* a first getOptions() that read a blank option and a keyed one
C2_Witness ==
  /\ last.op = "getOptions"
  /\ ~last.hadMapping
  /\ Len(enumerated) = 2
  /\ \E i \in 1..2 : IsBlank(enumerated[i].value) \/ IsBlank(enumerated[i].text)
  /\ Len(_options.entries) = 1

\* C3: once the cache holds a mapping (an empty one included) it never
\* changes, and every later getOptions() or selectValue() makes no
\* enumeration call and returns or uses that mapping, whatever the page now
\* holds.
C3_CacheIsFinal ==
  [][ _options.defined =>
        /\ _options' = _options
        /\ last'.hadMapping =>
             /\ "count" \notin Range(last'.trace)
             /\ "getAttribute" \notin Range(last'.trace)
             /\ "textContent" \notin Range(last'.trace)
             /\ (last'.op = "getOptions" \/ last'.wasEnabled)
                  => last'.mapping = _options ]_vars

\* a selectValue that resolved its key from the cache after the page had lost
\* the option: the option is no longer found
C3_Witness ==
  /\ last.op = "selectValue"
  /\ last.hadMapping
  /\ last.error.kind = "Timeout"
  /\ CollectOptions(dom, EmptyObject) # _options.entries

----------------------------------------------------------------------------
(* Properties of selectValue on an enabled component *)

LastOptions == last.mapping.entries

LastKeys == ObjectKeys(LastOptions)

OptionClicks == { i \in 1..Len(last.trace) : last.trace[i] = "optionClick" }

\* C5: selectValue(k) for a key k of the Option Set clicks exactly one option
\* element, the one whose text is the display text mapped to k.
C5_KeyClicksItsOption ==
  (/\ last.op = "selectValue"
   /\ last.value.type = "string"
   /\ HasOwn(LastOptions, last.value.str)) =>
    /\ Cardinality(OptionClicks) = 1
    /\ last.clicked \in 1..Len(dom)
    /\ dom[last.clicked].text = FindEntry(LastOptions, last.value.str)

\* C6: selectValue(s) for a string s that is no key of a non-empty Option Set
\* fails with KeyNotFound, the error lists all keys, and no option is clicked.
C6_UnknownKeyIsKeyNotFound ==
  (/\ last.op = "selectValue"
   /\ last.value.type = "string"
   /\ LastOptions # EmptyObject
   /\ ~HasOwn(LastOptions, last.value.str)) =>
    /\ last.error.kind = "KeyNotFound"
    /\ last.error.key = last.value.str
    /\ last.error.keys = LastKeys
    /\ last.clicked = 0

\* the keys in the order of their first insertion: document order of the
\* options that are not skipped
RECURSIVE PopulationOrder(_, _)
PopulationOrder(optionElements, acc) ==
  IF optionElements = << >> THEN acc
  ELSE LET o == Head(optionElements)
           k == toLowerSnakeCase(OrEmpty(o.value))
       IN  PopulationOrder(Tail(optionElements),
             IF IsBlank(o.value) \/ IsBlank(o.text) \/ k \in Range(acc)
               THEN acc ELSE Append(acc, k))

IsIntegerIndex(num, n) ==
  ~num.nan /\ num.twice % 2 = 0 /\ num.twice \div 2 \in 0..(n - 1)

\* C7: selectValue(i) for an integer 0 <= i <= n-1 targets the i-th key in the
\* order the Option Set was populated.
C7_IndexFollowsPopulationOrder ==
  (/\ last.op = "selectValue"
   /\ last.value.type = "number"
   /\ IsIntegerIndex(last.value.num, Len(LastKeys))) =>
    last.targetKey =
      PopulationOrder(enumerated, << >>)[(last.value.num.twice \div 2) + 1]

\* C8: selectValue(i) for a number i < 0 or i >= n on a non-empty Option Set
\* of n keys fails with IndexOutOfRange citing i and the range 0..n-1, and no
\* option is clicked.
C8_IndexOutOfRange ==
  (/\ last.op = "selectValue"
   /\ last.value.type = "number"
   /\ ~last.value.num.nan
   /\ Len(LastKeys) > 0
   /\ (last.value.num.twice < 0
         \/ last.value.num.twice >= 2 * Len(LastKeys))) =>
    /\ last.error.kind = "IndexOutOfRange"
    /\ last.error.index = last.value.num
    /\ last.error.maxIndex = Len(LastKeys) - 1
    /\ last.clicked = 0
    /\ OptionClicks = {}

\* selectValue(2) on an Option Set of two keys
C8_Witness ==
  /\ last.op = "selectValue"
  /\ last.value = NumberValue(Num(4))
  /\ Len(LastKeys) = 2
  /\ last.error.kind = "IndexOutOfRange"

\* C9: selectValue() without argument fails with NoOptions exactly when the
\* Option Set is empty; otherwise the random index lies in 0..n-1, the target
\* is the key at that index, and every index is reached by some value of the
\* random source.
C9_RandomSelection ==
  (last.op = "selectValue" /\ last.value.type = "undefined") =>
    /\ last.error.kind = "NoOptions" <=> Len(LastKeys) = 0
    /\ Len(LastKeys) > 0 =>
         /\ last.randomIndex \in 0..(Len(LastKeys) - 1)
         /\ last.targetKey = LastKeys[last.randomIndex + 1]
         /\ HasOwn(_options.entries, last.targetKey)
         /\ { RandomIndex(r, Len(LastKeys)) : r \in RandomValues }
              = 0..(Len(LastKeys) - 1)

\* selectValue() that drew the second of two keys
C9_Witness ==
  /\ last.op = "selectValue"
  /\ last.value.type = "undefined"
  /\ Len(LastKeys) = 2
  /\ last.randomIndex = 1
  /\ last.targetKey = LastKeys[2]

\* C10 as stated: every argument that is not undefined, a string or a number
\* (null included) fails with InvalidValueType citing its type name.
C10_OtherTypesRejected ==
  (/\ last.op = "selectValue"
   /\ last.value.type \notin {"undefined", "string", "number"}
   /\ Len(LastKeys) > 0) =>
    /\ last.error.kind = "InvalidValueType"
    /\ last.error.receivedType = TypeOf(last.value)

\* C10 amended: on an enabled component with a non-empty Option Set, every
\* argument that is not undefined, null, a string or a number fails with
\* InvalidValueType citing its type name and clicks nothing; null selects at
\* random like an absent argument.
C10_OtherTypesButNullRejected ==
  (last.op = "selectValue" /\ Len(LastKeys) > 0) =>
    /\ last.value.type \notin {"undefined", "null", "string", "number"} =>
         /\ last.error.kind = "InvalidValueType"
         /\ last.error.receivedType = last.value.type
         /\ last.clicked = 0
    /\ last.value.type = "null" =>
         /\ last.error.kind # "InvalidValueType"
         /\ last.randomIndex \in 0..(Len(LastKeys) - 1)
         /\ last.targetKey = LastKeys[last.randomIndex + 1]

\* selectValue(true) on a component that has options
C10_Witness ==
  /\ last.op = "selectValue"
  /\ last.value = OtherValue("boolean")
  /\ Len(LastKeys) > 0
  /\ last.error.kind = "InvalidValueType"

\* a value the label accepts: a string with a character that is no whitespace
IsValidLabel(value) == value.type = "string" /\ ~IsBlank(value.str)

LabelIsSet == _locatorString # NoLocatorString

\* the label state around the most recent label call
C11_ReadsAndRepeatedSets ==
  /\ (last.op = "getLocatorString" /\ last.previous = NoLocatorString) =>
       last.error.kind = "EmptyProperty"
  /\ (last.op = "getLocatorString" /\ last.previous # NoLocatorString) =>
       /\ last.error = NoError
       /\ last.result = last.previous
       /\ last.result = _locatorString
  /\ (/\ last.op = "setLocatorString"
      /\ IsValidLabel(last.value)
      /\ last.previous # NoLocatorString) =>
       /\ last.error.kind = "LocatorImmutability"
       /\ _locatorString = last.previous
  /\ (/\ last.op = "setLocatorString"
      /\ IsValidLabel(last.value)
      /\ last.previous = NoLocatorString) =>
       /\ last.error = NoError
       /\ _locatorString = last.value.str

\* C11: the label is write-once.  A read before any successful set fails
\* with EmptyProperty; the first valid set stores its value; from then on no
\* step changes the label, every read returns it, and every set with a valid
\* string, equal or different, fails with LocatorImmutability.
C11_LabelIsWriteOnce ==
  /\ []C11_ReadsAndRepeatedSets
  /\ [][LabelIsSet => _locatorString' = _locatorString]_vars

\* a second valid set with a different value was rejected, and one with the
\* same value is rejected in this state too
C11_Witness ==
  /\ last.op = "setLocatorString"
  /\ IsValidLabel(last.value)
  /\ last.previous = << "a" >>
  /\ last.value.str = << "b" >>
  /\ last.error.kind = "LocatorImmutability"
  /\ _locatorString = << "a" >>

\* C12: a set with a non-string, an empty or a whitespace-only value fails
\* with InvalidLocator and leaves the label as it was: unset if it was unset,
\* and the stored value if it was set (the value is checked before the
\* immutability).
C12_InvalidValueIsRejected ==
  (last.op = "setLocatorString" /\ ~IsValidLabel(last.value)) =>
    /\ last.error.kind = "InvalidLocator"
    /\ _locatorString = last.previous

\* a whitespace-only value was rejected on a label that is already set
C12_Witness ==
  /\ last.op = "setLocatorString"
  /\ last.value = StringValue(<< " ", "\t" >>)
  /\ last.previous = << "a" >>
  /\ last.error.kind = "InvalidLocator"
  /\ _locatorString = << "a" >>

\* the engine calls of a complete login, in the order the claim gives them
FlowOrder ==
  << << "isVisible", UsernameField >>, << "fill", UsernameField >>,
     << "isVisible", PasswordField >>, << "fill", PasswordField >>,
     << "isVisible", LoginButton >>,   << "click", LoginButton >>,
     << "waitFor", ButtonERP >>,       << "click", ButtonERP >>,
     << "toHaveURL", "apps" >>,
     << "goto", MOD_HOME >>,           << "toHaveURL", "navigate" >> >>

CallKey(c) ==
  IF c.method = "toHaveURL" THEN << c.method, c.value >>
                            ELSE << c.method, c.target >>

Rank(c) == CHOOSE i \in DOMAIN FlowOrder : FlowOrder[i] = CallKey(c)

\* the position of a call in steps, 0 if it was not made
Position(method, target) ==
  IF \E i \in DOMAIN steps : CallKey(steps[i]) = << method, target >>
    THEN CHOOSE i \in DOMAIN steps : CallKey(steps[i]) = << method, target >>
    ELSE 0

Made(method, target) == Position(method, target) # 0

Succeeded(method, target) ==
  Made(method, target) /\ steps[Position(method, target)].ok

AppsCalls == { << "waitFor", ButtonERP >>, << "click", ButtonERP >>,
               << "toHaveURL", "apps" >> }

AppsAttempted == Made("waitFor", ButtonERP)

AppsFailed == \E i \in DOMAIN steps :
                CallKey(steps[i]) \in AppsCalls /\ ~steps[i].ok

HomeNavigated == Made("goto", MOD_HOME)

C13_OrderAndFallback ==
  \* every call has its place in the order, and no call is made twice
  /\ \A i \in DOMAIN steps : CallKey(steps[i]) \in Range(FlowOrder)
  /\ \A i, j \in DOMAIN steps : i < j => Rank(steps[i]) < Rank(steps[j])
  \* each step comes after the success of the one before it
  /\ Made("fill", UsernameField) =>
       steps[Position("fill", UsernameField)].value = credentials.username
  /\ Made("fill", PasswordField) =>
       /\ Succeeded("fill", UsernameField)
       /\ steps[Position("fill", PasswordField)].value = credentials.password
  /\ Made("click", LoginButton) => Succeeded("fill", PasswordField)
  /\ AppsAttempted => Succeeded("click", LoginButton)
  /\ HomeNavigated => AppsAttempted
  \* a failure of the apps step is logged and not thrown
  /\ AppsFailed <=> (logged = << BypassMessage >>)
  /\ ~AppsFailed => logged = << >>
  /\ (AppsFailed /\ ~HomeNavigated) => (pc = "home" /\ thrown = NoError)
  \* after the apps step the home navigation is next, or done
  /\ (AppsAttempted /\ pc # "apps") => (pc = "home" \/ HomeNavigated)
  \* login resolves only after the URL assertion of the home page passed
  /\ pc = "resolved" =>
       /\ thrown = NoError
       /\ steps # << >>
       /\ CallKey(steps[Len(steps)]) = << "toHaveURL", "navigate" >>
       /\ steps[Len(steps)].ok

\* C13: login fills the username, fills the password, clicks the login
\* button, attempts the ERP click of the apps screen and navigates to the
\* home page, in this order; a failure of the apps step is swallowed and
\* logged, the home navigation follows whether the apps step succeeded or
\* failed, and login resolves only if the home URL assertion passes.
C13_LoginFlow ==
  /\ []C13_OrderAndFallback
  /\ (pc = "apps") ~> HomeNavigated

\* login resolved although the apps step failed
C13_Witness ==
  /\ pc = "resolved"
  /\ AppsFailed
  /\ logged = << BypassMessage >>
  /\ HomeNavigated

NonAppsFailure(i) ==
  /\ CallKey(steps[i]) \notin AppsCalls
  /\ \/ ~steps[i].ok
     \/ steps[i].method = "isVisible" /\ steps[i].value = "hidden"

\* C14: a failure of any step other than the apps step ends the flow and
\* reaches the caller: an invisible username field, password field or login
\* button gives VisibilityError for that element, a failed fill, click or
\* home navigation gives the engine's error, and in each case no later call
\* is made.
C14_FailurePropagates ==
  /\ \A i \in DOMAIN steps :
       NonAppsFailure(i) =>
         /\ i = Len(steps)
         /\ pc = "rejected"
         /\ thrown # NoError
         /\ (steps[i].method = "isVisible") =>
              thrown = VisibilityError(steps[i].target)
  /\ pc = "rejected" => (steps # << >> /\ NonAppsFailure(Len(steps)))

\* the password field was not visible: the username was filled, nothing
\* after the visibility check was called
C14_Witness ==
  /\ pc = "rejected"
  /\ thrown = VisibilityError(PasswordField)
  /\ Succeeded("fill", UsernameField)
  /\ ~Made("fill", PasswordField)
  /\ ~Made("click", LoginButton)

\* the positions where an encoded colon starts; two of them are at least
\* four apart, since the sequence does not overlap itself
Occurrences(s) ==
  { i \in 1..Len(s) : StartsWith(SubSeq(s, i, Len(s)), EncodedColon) }

\* the positions that survive: all but the x, 3 and a of an encoded colon
Kept(s) ==
  { i \in 1..Len(s) :
      ~\E j \in Occurrences(s) : j < i /\ i < j + Len(EncodedColon) }

\* s with ':' at every occurrence and every other character in place
EveryColonDecoded(s) ==
  LET kept   == Kept(s)
      nth(k) == CHOOSE i \in kept : Cardinality({ j \in kept : j < i }) = k - 1
  IN  [k \in 1..Cardinality(kept) |->
         IF nth(k) \in Occurrences(s) THEN ":" ELSE s[nth(k)]]

\* C15: cleanUrl puts ':' in the place of every backslash-x-3-a and leaves
\* every other character as it is; an empty or unset input gives the empty
\* string; and cleaning the result again changes nothing.
C15_CleanUrl ==
  /\ (cleaned # Null /\ rawUrl # Null) => cleaned = EveryColonDecoded(rawUrl)
  /\ (cleaned # Null /\ rawUrl \in { Null, << >> }) => cleaned = << >>
  /\ recleaned # Null => recleaned = cleaned

\* an input with two encoded colons and other characters was cleaned twice
C15_Witness ==
  /\ rawUrl # Null
  /\ Cardinality(Occurrences(rawUrl)) = 2
  /\ Len(rawUrl) > 2 * Len(EncodedColon)
  /\ cleaned # Null
  /\ recleaned = cleaned
  /\ Len(cleaned) = Len(rawUrl) - 2 * (Len(EncodedColon) - 1)

\* C16: isLoaded() reports by its boolean result and does not throw: once the
\* page has given its load signal, the call resolves to true when the
\* location matches the pattern of the page's URL and to false when it does
\* not.
C16_IsLoadedReportsBoolean ==
  (loaded.called /\ loaded.wasReady) =>
    /\ loaded.error = NoError
    /\ loaded.returned
    /\ loaded.result = MatchesPattern(expectedUrl, loaded.at)

\* the parameters the component was configured with: none for a
\* configuration without params and for the component that has no params
ConfiguredParams ==
  IF kind = "input" /\ strategyConfig.params # NoParams
    THEN strategyConfig.params
    ELSE << >>

\* C17: autoFill() calls the configured strategy once, with the configured
\* parameters and nothing else (with none when none are configured), fills
\* the element with the value the strategy produced and returns that value;
\* on a disabled component it fails with the ComponentDisabled error of fill
\* and the element is not touched.
C17_AutoFill ==
  last.op = "autoFill" =>
    /\ last.strategyCalls = << ConfiguredParams >>
    /\ last.wasEnabled =>
         /\ last.error = NoError
         /\ last.trace = << "fill" >>
         /\ elementValue =
              ApplyStrategy(strategyConfig.strategy, ConfiguredParams)
         /\ last.result = elementValue
    /\ ~last.wasEnabled =>
         /\ last.error = ComponentDisabledError(ComponentName(kind), "fill")
         /\ last.trace = << >>
         /\ elementValue = last.elementBefore

\* a strategy with two configured parameters produced the value that was
\* filled and returned
C17_Witness ==
  /\ last.op = "autoFill"
  /\ last.wasEnabled
  /\ kind = "input"
  /\ strategyConfig = StrategyConfig("join", << << "a" >>, << "b" >> >>)
  /\ last.strategyCalls = << << << "a" >>, << "b" >> >> >>
  /\ last.result = << "u", "a", "b" >>
  /\ elementValue = << "u", "a", "b" >>

ReadOps == {"getValue", "getSelectedValue"}

C18_ReadIsNotRejected ==
  (last.op \in ReadOps \cup {"getOptions"}) => last.error = NoError

\* C18: getValue(), getSelectedValue() and getOptions() are not rejected on
\* a disabled component, and a getValue() or getSelectedValue() step leaves
\* the enabled flag, the label and the option cache as they were.
C18_ReadsIgnoreEnabled ==
  /\ []C18_ReadIsNotRejected
  /\ [][(GetValue \/ GetSelectedValue) =>
          UNCHANGED << _enabled, _locatorString, _options >>]_vars

\* getSelectedValue() returned the element's value on a disabled select
\* component whose label is set and whose options are cached
C18_Witness ==
  /\ last.op = "getSelectedValue"
  /\ ~last.wasEnabled
  /\ ~_enabled
  /\ last.error = NoError
  /\ last.result = elementValue
  /\ _locatorString = << "a" >>
  /\ IsCached(_options)

\* the pipeline in the order the claim gives: whitespace runs to '_', '_'
\* before each upper-case letter, lower case, runs of '_' to one, and then
\* a leading '_' removed
SpecifiedPipeline(s) ==
  StripLeadingUnderscore(CollapseUnderscores(ToLowerCase(
    ReplaceUpper(ReplaceWhitespaceRuns(s)))))

\* C19: for every input toLowerSnakeCase returns what the specified pipeline
\* returns; the result does not begin with '_' and has no two '_' in a row.
C19_SpecifiedPipeline ==
  snake # Null =>
    /\ snake = SpecifiedPipeline(str)
    /\ snake # << >> => Head(snake) # "_"
    /\ \A i \in 1..(Len(snake) - 1) : ~(snake[i] = "_" /\ snake[i + 1] = "_")

\* C20: selectValue never fails with OriginalValueNotFound, whatever the
\* options and the argument.
C20_NeverOriginalValueNotFound ==
  last.op = "selectValue" => last.error.kind # "OriginalValueNotFound"

SelectionErrors ==
  {"NoOptions", "KeyNotFound", "IndexOutOfRange", "InvalidValueType",
   "OriginalValueNotFound"}

ControlClicks == { i \in DOMAIN last.trace : last.trace[i] = "click" }

EnumerationCalls == {"count", "getAttribute", "textContent"}

\* C21: selectValue runs the enabled guard, the click that opens the
\* control, the option resolution, the target-key resolution and the option
\* click in this order; so every SelectionError comes after exactly one
\* click on the control, with the option cache populated and no option
\* clicked.
C21_SelectValueOrder ==
  last.op = "selectValue" =>
    /\ ~last.wasEnabled => last.trace = << >>
    /\ last.wasEnabled =>
         /\ ControlClicks = {1}
         /\ \A i \in DOMAIN last.trace :
              /\ last.trace[i] \in EnumerationCalls =>
                   \A j \in DOMAIN last.trace :
                     last.trace[j] = "optionClick" => i < j
              /\ last.trace[i] = "optionClick" => i = Len(last.trace)
         /\ ~last.hadMapping =>
              (Len(last.trace) > 1 /\ last.trace[2] = "count")
    /\ last.error.kind \in SelectionErrors =>
         /\ ControlClicks = {1}
         /\ last.mapping.defined
         /\ _options.defined
         /\ last.clicked = 0
         /\ "optionClick" \notin Range(last.trace)
    /\ last.targetKey # Null => last.mapping.defined

\* an index out of range was reported by the call that also enumerated the
\* options: one click, then the enumeration, no option click
C21_Witness ==
  /\ last.op = "selectValue"
  /\ last.error.kind = "IndexOutOfRange"
  /\ ~last.hadMapping
  /\ Len(dom) = 2
  /\ last.trace = << "click" >> \o EnumerationTrace(Len(dom))
  /\ _options.defined

\* the options getOptions does not skip, by their position in the list read
KeptPositions ==
  { i \in DOMAIN enumerated :
      ~IsBlank(enumerated[i].value) /\ ~IsBlank(enumerated[i].text) }

NormalizedValue(i) == toLowerSnakeCase(enumerated[i].value)

\* the last kept option whose value normalizes to k
LastWithKey(k) ==
  CHOOSE i \in KeptPositions :
    /\ NormalizedValue(i) = k
    /\ \A j \in KeptPositions : NormalizedValue(j) = k => j <= i

\* C22: when the values of several kept options normalize to the same key,
\* the Option Set has one entry for that key, its text is the text of the
\* last of these options in document order, and there are as many keys as
\* distinct normalized values.
C22_LastDuplicateWins ==
  _options.defined =>
    LET keys == ObjectKeys(_options.entries)
    IN  /\ \A i, j \in DOMAIN keys : keys[i] = keys[j] => i = j
        /\ Len(keys) = Cardinality({ NormalizedValue(i) : i \in KeptPositions })
        /\ \A i \in KeptPositions :
             /\ HasOwn(_options.entries, NormalizedValue(i))
             /\ FindEntry(_options.entries, NormalizedValue(i)) =
                  enumerated[LastWithKey(NormalizedValue(i))].text

\* two kept options with values "b" and "B" share the key "b": the entry
\* holds the text of the second
C22_Witness ==
  /\ _options.defined
  /\ Len(enumerated) = 2
  /\ enumerated[1] = [value |-> << "b" >>, text |-> << "x" >>]
  /\ enumerated[2] = [value |-> << "B" >>, text |-> << "x", "y" >>]
  /\ ObjectKeys(_options.entries) = << << "b" >> >>
  /\ FindEntry(_options.entries, << "b" >>) = << "x", "y" >>

IsLoadedAccepts == loaded.returned /\ loaded.result

\* C23: isLoaded() accepts the location exactly when it is the page's URL or
\* the page's URL followed by anything, every metacharacter of the URL taken
\* literally; a location that holds the URL after some prefix is not
\* accepted.
C23_AcceptsUrlAndSuffixesOnly ==
  (loaded.called /\ loaded.wasReady) =>
    (IsLoadedAccepts <=> StartsWith(loaded.at, expectedUrl))

\* C24: a component constructed with a parent has the given element
\* reference narrowed to be relative to the parent's reference, one
\* constructed without a parent has the given reference unchanged, under
\* every BaseComponent of the repository.
C24_ReferenceScopedToParent ==
  (built.called /\ built.error = NoError) =>
    _locator = IF built.parentArg.type = "component"
                 THEN LocatorLocator(built.parentArg.locator, built.given)
                 ELSE built.given

\* a step that constructs an enableable component
ConstructsEnableable ==
  ~built.called /\ built'.called /\ built'.class \in EnableableKinds

\* a fill, clear or selectValue made while the flag is false
MutatesWhileDisabled ==
  last' # last /\ last'.op \in MutatingOps /\ ~_enabled

\* C25: for every concrete constructor, construction completes without error
\* and the enabled flag reads true for an absent or true enabled argument
\* and false for a false one; while the flag is false, fill, clear and
\* selectValue are rejected with ComponentDisabled.
C25_EnabledFollowsConstructor ==
  [][ /\ ConstructsEnableable =>
           /\ built'.error = NoError
           /\ _enabled' = (built'.enabledArg # "false")
      /\ MutatesWhileDisabled => last'.error.kind = "ComponentDisabled"
    ]_vars

TargetsSubTarget(enabled) ==
  /\ _locator # << >>
  /\ _locator[Len(_locator)] =
       IF enabled THEN "input" ELSE ".like-disabled-input"

\* C26 as stated: in every state after constructing the tooltip-located input
\* and changing the enabled flag any number of times, the element reference
\* targets the "input" sub-target exactly when enabled is true and the
\* disabled-styled sub-target exactly when it is false.
C26_SubTargetFollowsFlag ==
  kind = "tooltipInput" => TargetsSubTarget(_enabled)

\* C26: in every state after constructing the tooltip-located input and
\* changing the enabled flag any number of times, the element reference
\* targets the sub-target chosen by the enabled argument of the constructor
\* ("input" for true or absent, the disabled-styled one for false), under the
\* parent if there is one.
C26_SubTargetFollowsConstructor ==
  kind = "tooltipInput" =>
    /\ TargetsSubTarget(built.enabledArg # "false")
    /\ Len(_locator) = Len(built.parentArg.locator) + 3
    /\ \A i \in DOMAIN built.parentArg.locator :
         _locator[i] = built.parentArg.locator[i]

\* a tooltip-located input constructed disabled under a form, enabled later
\* and filled: its reference is still the disabled-styled one
C26_Witness ==
  /\ kind = "tooltipInput"
  /\ built.enabledArg = "false"
  /\ built.parentArg.type = "component"
  /\ _enabled
  /\ last.op = "fill"
  /\ last.error = NoError
  /\ _locator[Len(_locator)] = ".like-disabled-input"

\* where in events the call of c did what (0: it did not)
EventIndex(c, what) ==
  IF \E i \in DOMAIN events : events[i] = Event(c, what)
    THEN CHOOSE i \in DOMAIN events : events[i] = Event(c, what)
    ELSE 0

Started(c) == EventIndex(c, "start") # 0

EndIndex(c) ==
  IF EventIndex(c, "return") # 0 THEN EventIndex(c, "return")
  ELSE EventIndex(c, "throw")

\* c was called before the call of d ended
StartedBeforeEnd(c, d) ==
  Started(c) /\ (EndIndex(d) = 0 \/ EventIndex(c, "start") < EndIndex(d))

\* the two calls overlap: each was called before the other ended
Overlapped == StartedBeforeEnd(1, 2) /\ StartedBeforeEnd(2, 1)

CacheWrites == { i \in DOMAIN events : events[i].what = "write" }

BothReturned == \A c \in Callers : calls[c].pc = "returned"

LastReturned ==
  IF EventIndex(1, "return") > EventIndex(2, "return") THEN 1 ELSE 2

\* C27: when two getOptions() calls overlap before the cache is populated
\* and both return, each has enumerated and written the cache (two writes),
\* each returns the mapping it built itself, and the cache holds the mapping
\* of the call that returned last; when the calls do not overlap the cache
\* is written at most once.
C27_OverlappingCallsRace ==
  /\ (Overlapped /\ BothReturned) =>
       /\ Cardinality(CacheWrites) = 2
       /\ \A c \in Callers :
            /\ EventIndex(c, "write") # 0
            /\ calls[c].result = Mapping(calls[c].options)
       /\ _options = Mapping(calls[LastReturned].options)
  /\ ~Overlapped => Cardinality(CacheWrites) <= 1

\* two overlapping calls that returned different mappings, the page having
\* dropped an option between them; the cache holds the later one
C27_Witness ==
  /\ Overlapped
  /\ BothReturned
  /\ calls[1].result # calls[2].result
  /\ Cardinality(CacheWrites) = 2
  /\ _options = calls[LastReturned].result

\* d was called after the call of c had thrown, with no cache write before
CalledAfterFailure(d, c) ==
  /\ calls[c].pc = "thrown"
  /\ Started(d)
  /\ EventIndex(d, "start") > EventIndex(c, "throw")
  /\ \A i \in CacheWrites : i > EventIndex(d, "start")

\* C30: a getOptions() that throws part-way (at count, at a value or at a
\* text) writes nothing to the cache: with no other writer the cache stays
\* unset, and a call made afterwards enumerates again from the start, so
\* that what it returns is the mapping it built itself.
C30_FailureLeavesCacheUnset ==
  \A c \in Callers :
    calls[c].pc = "thrown" =>
      /\ EventIndex(c, "write") = 0
      /\ CacheWrites = {} => _options = Undefined
      /\ \A d \in Callers \ {c} :
           CalledAfterFailure(d, c) =>
             /\ calls[d].pc \in {"value", "text"} =>
                  Len(ObjectKeys(calls[d].options)) <= calls[d].i
             /\ calls[d].pc = "returned" =>
                  /\ EventIndex(d, "write") # 0
                  /\ calls[d].result = Mapping(calls[d].options)

\* the first call threw after it had collected an option; the second one,
\* made afterwards, enumerated both options and filled the cache
C30_Witness ==
  /\ calls[1].pc = "thrown"
  /\ calls[1].options # EmptyObject
  /\ CalledAfterFailure(2, 1)
  /\ calls[2].pc = "returned"
  /\ Len(ObjectKeys(calls[2].options)) = 2
  /\ _options = calls[2].result

ResolvedSuccessfully == waited.resolved /\ waited.error = NoError

\* C28: waitForPageLoad() resolves only once the data-ajax-state attribute
\* of the body is "complete", and does not resolve successfully when the
\* attribute does not get there within the page-load timeout.
C28_ResolvesOnlyWhenComplete ==
  waited.called =>
    /\ ResolvedSuccessfully => waited.ajaxAt = "complete"
    /\ ~waited.reached => ~ResolvedSuccessfully

\* C29: toLowerSnakeCase is idempotent: applied to its own result it returns
\* that result, so every key it produces is a fixed point.
C29_Idempotent ==
  resnake # Null => resnake = snake

====
